---- MODULE Spec2Model ----
(***************************************************************************)
(* Live quiz session engine of smart-quiz-agent (agent/src/prompts.ts):    *)
(* the in-memory registry liveSessions, the routes start-live, join, next, *)
(* answer and end, the grace-period timer, and the rows the /next route    *)
(* writes to quiz_attempts and student_answers when a quiz is over.        *)
(*                                                                         *)
(* Node runs one handler at a time and switches handlers only at an await, *)
(* so an action is one handler from an await (or its start) to the next    *)
(* await (or its response).                                                *)
(***************************************************************************)
EXTENDS Integers, Sequences, FiniteSets, TLC

VARIABLES
  liveSessions,   \* Map<joinCode, LiveSession>: join code -> session object id
  session,        \* the LiveSession objects on the heap, by object id
  freeSessions,   \* object ids not yet allocated
  timers,         \* pending setTimeout(() => liveSessions.delete(code)) per code
  now,            \* the latest clock value a handler has read, in seconds
  pendingJoins,   \* /join handlers suspended at the await of the users lookup
  pendingSubmits, \* /submit handlers suspended after the attempt lookup
  finalizers,     \* /next handlers suspended at an await of the save loop
  quizAttempts,   \* table quiz_attempts (the timestamps are not modelled)
  studentAnswers, \* table student_answers (the serial id is not modelled)
  idCounter,      \* number of ids genId() has handed out
  inflight,       \* answer requests sent by a client and not yet handled
  env,            \* the requests the clients of this run send (fixed by Init)
  resp,           \* the HTTP response most recently sent
  emitted,        \* the events the most recent step gave to broadcastSSE
  sseClients,     \* session.sseClients: the subscribed connections, per session object
  streams         \* the connections of GET /stream: their state and what was written to them

vars == <<liveSessions, session, freeSessions, timers, now, pendingJoins,
          pendingSubmits, finalizers, quizAttempts, studentAnswers, idCounter, inflight, env,
          resp, emitted, sseClients, streams>>

-----------------------------------------------------------------------------
(* Bounds of the model.                                                    *)

\* Largest clock value, in seconds.
MaxClock == 1
\* /submit is not taken while this many /submit handlers are suspended.
MaxPendingSubmits == 2
\* /end is not taken while this many delete timers are pending for the code.
MaxTimers == 1
\* /next is not taken once currentQuestionIndex is this far past the last
\* question.
MaxOverrun == 1
\* A /next that would start the save loop is not taken while this many /next
\* handlers are suspended in it.
MaxFinalizers == 1

-----------------------------------------------------------------------------
(* String.prototype.trim and toLowerCase on character sequences.           *)

\* JavaScript request-body values: a string is a sequence of characters
JsString(s) == [t |-> "string", v |-> s]
JsUndefined == [t |-> "undefined", v |-> <<>>]
JsNumber == [t |-> "number", v |-> <<"5">>]

IsSpace(ch) == ch = " "

RECURSIVE TrimStart(_)
TrimStart(s) == IF s # <<>> /\ IsSpace(Head(s)) THEN TrimStart(Tail(s)) ELSE s

RECURSIVE TrimEnd(_)
TrimEnd(s) ==
  IF s # <<>> /\ IsSpace(s[Len(s)]) THEN TrimEnd(SubSeq(s, 1, Len(s) - 1)) ELSE s

Trim(s) == TrimEnd(TrimStart(s))

LowerChar(ch) ==
  CASE ch = "A" -> "a" [] ch = "B" -> "b" [] ch = "C" -> "c" [] ch = "E" -> "e"
    [] ch = "F" -> "f"
    [] ch = "L" -> "l" [] ch = "R" -> "r" [] ch = "S" -> "s" [] ch = "T" -> "t"
    [] ch = "U" -> "u" [] OTHER -> ch

ToLowerCase(s) == [i \in 1..Len(s) |-> LowerChar(s[i])]

\* String.prototype.split(" ")
RECURSIVE SplitWords(_, _)
SplitWords(s, word) ==
  IF s = <<>> THEN <<word>>
  ELSE IF IsSpace(Head(s)) THEN <<word>> \o SplitWords(Tail(s), <<>>)
  ELSE SplitWords(Tail(s), Append(word, Head(s)))

Split(s) == SplitWords(s, <<>>)

\* String.prototype.includes(word)
Includes(s, word) ==
  \E i \in 0..(Len(s) - Len(word)) : SubSeq(s, i + 1, i + Len(word)) = word

\* Array.prototype.join(", ")
RECURSIVE JoinComma(_)
JoinComma(items) ==
  IF items = <<>> THEN <<>>
  ELSE IF Len(items) = 1 THEN Head(items)
  ELSE Head(items) \o <<",", " ">> \o JoinComma(Tail(items))

-----------------------------------------------------------------------------
(* JSON.parse on character sequences.  A value is a record with a tag t:   *)
(* string and number (v the characters), array (v the elements), object    *)
(* (v the members in order), null.  The characters of a key or of a string *)
(* are whatever stands between two quotes; "left" and "right" are each     *)
(* written as one character.                                               *)

Quote == "\""
Digits == {"0", "1", "2", "3", "4", "5", "6", "7", "8", "9"}

JsArray(items) == [t |-> "array", v |-> items]
JsObject(members) == [t |-> "object", v |-> members]
JsNull == [t |-> "null", v |-> <<>>]

\* SyntaxError
ParseError == [ok |-> FALSE, v |-> JsNull, rest |-> <<>>]
Parsed(value, rest) == [ok |-> TRUE, v |-> value, rest |-> rest]

\* the characters up to the closing quote
RECURSIVE ParseChars(_, _)
ParseChars(s, acc) ==
  IF s = <<>> THEN ParseError
  ELSE IF Head(s) = Quote THEN Parsed(JsString(acc), Tail(s))
  ELSE ParseChars(Tail(s), Append(acc, Head(s)))

\* the digits of a number
RECURSIVE ParseDigits(_, _)
ParseDigits(s, acc) ==
  IF s # <<>> /\ Head(s) \in Digits
  THEN ParseDigits(Tail(s), Append(acc, Head(s)))
  ELSE Parsed([t |-> "number", v |-> acc], s)

RECURSIVE ParseValue(_)
RECURSIVE ParseElements(_, _)
RECURSIVE ParseMembers(_, _)

\* Every intermediate result below is bound by a quantifier over a
\* one-element set, so that it is a value computed once.

\* what follows the element r of an array
ElementsAfter(r, acc) ==
  LET after == TrimStart(r.rest)
  IN IF ~r.ok \/ after = <<>> THEN ParseError
     ELSE IF Head(after) = "," THEN ParseElements(Tail(after), Append(acc, r.v))
     ELSE IF Head(after) = "]" THEN Parsed(JsArray(Append(acc, r.v)), Tail(after))
     ELSE ParseError

\* the elements of an array, after "[" or ","
ParseElements(s, acc) ==
  CHOOSE out \in {ElementsAfter(r, acc) : r \in {ParseValue(s)}} : TRUE

\* what follows the member key: r of an object
MembersAfter(key, r, acc) ==
  LET after == TrimStart(r.rest)
      members == Append(acc, [k |-> key.v.v, x |-> r.v])
  IN IF ~r.ok \/ after = <<>> THEN ParseError
     ELSE IF Head(after) = "," THEN ParseMembers(Tail(after), members)
     ELSE IF Head(after) = "}" THEN Parsed(JsObject(members), Tail(after))
     ELSE ParseError

\* the colon and the value after the key of a member
MemberValue(key, acc) ==
  LET colon == TrimStart(key.rest)
  IN CHOOSE out \in
       {MembersAfter(key, r, acc) :
          r \in {IF key.ok /\ colon # <<>> /\ Head(colon) = ":"
                 THEN ParseValue(Tail(colon)) ELSE ParseError}} : TRUE

\* the members of an object, after "{" or ","
ParseMembers(s, acc) ==
  LET start == TrimStart(s)
  IN CHOOSE out \in
       {MemberValue(key, acc) :
          key \in {IF start # <<>> /\ Head(start) = Quote
                   THEN ParseChars(Tail(start), <<>>) ELSE ParseError}} : TRUE

ParseValue(text) ==
  LET s == TrimStart(text)
      inner == TrimStart(Tail(s))
  IN IF s = <<>> THEN ParseError
     ELSE IF Head(s) = Quote THEN ParseChars(Tail(s), <<>>)
     ELSE IF Head(s) \in Digits THEN ParseDigits(s, <<>>)
     ELSE IF Head(s) = "null" THEN Parsed(JsNull, Tail(s))
     ELSE IF Head(s) = "["
     THEN IF inner # <<>> /\ Head(inner) = "]"
          THEN Parsed(JsArray(<<>>), Tail(inner))
          ELSE ParseElements(inner, <<>>)
     ELSE IF Head(s) = "{"
     THEN IF inner # <<>> /\ Head(inner) = "}"
          THEN Parsed(JsObject(<<>>), Tail(inner))
          ELSE ParseMembers(inner, <<>>)
     ELSE ParseError

\* JSON.parse(text): ok is FALSE when it throws
JsonParse(text) ==
  CHOOSE out \in
    {IF r.ok /\ TrimStart(r.rest) = <<>> THEN r ELSE ParseError :
       r \in {ParseValue(text)}} : TRUE

\* JSON.stringify of an array of {left, right} objects and of an array of
\* numbers: how the quiz table and the clients write their texts
PairJson(pair) ==
  <<"{", Quote, "left", Quote, ":", Quote>> \o pair[1]
    \o <<Quote, ",", Quote, "right", Quote, ":", Quote>> \o pair[2] \o <<Quote, "}">>

RECURSIVE ItemsJson(_)
ItemsJson(items) ==
  IF items = <<>> THEN <<>>
  ELSE IF Len(items) = 1 THEN Head(items)
  ELSE Head(items) \o <<",">> \o ItemsJson(Tail(items))

PairsJson(pairs) ==
  <<"[">> \o ItemsJson([i \in 1..Len(pairs) |-> PairJson(pairs[i])]) \o <<"]">>

-----------------------------------------------------------------------------
(* Universe: users, join codes, session objects, the quiz table.           *)

Roles == [T1 |-> "teacher", A1 |-> "admin", S1 |-> "student", S2 |-> "student"]
Users == DOMAIN Roles
\* rows of the users table: the name a join looks up
UserNames == [T1 |-> "Tina", A1 |-> "Adam", S1 |-> "Sam", S2 |-> "Sue"]

\* the user that starts live sessions
Hosts == {"T1"}

\* generateJoinCode() draws from 100000..999999; two codes stand for the range
Codes == {"100000", "100001"}
\* the response objects of the GET /stream requests
ConnIds == {"r1", "r2"}

SessionIds == {"s1", "s2"}
NoSession == "none"

\* tables quizzes and questions (questions in order_index order)
Quizzes ==
  [quizA |-> [status |-> "published", time_limit_minutes |-> 10, title |-> "Quiz A",
              questions |-> <<
                [id |-> "q1", question_text |-> "Pick one", question_type |-> "mcq",
                 options |-> <<"A", "B">>, correct_answer |-> <<"B">>,
                 marks |-> 1, difficulty |-> "easy"],
                [id |-> "q2", question_text |-> "Pick another",
                 question_type |-> "mcq", options |-> <<"A", "B">>,
                 correct_answer |-> <<"b", " ">>,
                 marks |-> 2, difficulty |-> "easy"] >>],
   draft |-> [status |-> "draft", time_limit_minutes |-> 0, title |-> "Draft",
              questions |-> <<>>],
   quizE |-> [status |-> "published", time_limit_minutes |-> 10, title |-> "Quiz E",
              questions |-> <<
                [id |-> "e1", question_text |-> "Pick one", question_type |-> "mcq",
                 options |-> <<"A", "B">>, correct_answer |-> <<"B">>,
                 marks |-> 1, difficulty |-> "easy"],
                [id |-> "e2", question_text |-> "True or false",
                 question_type |-> "true_false", options |-> <<"True", "False">>,
                 correct_answer |-> <<"T", "r", "u", "e">>,
                 marks |-> 1, difficulty |-> "easy"] >>],
   quizF |-> [status |-> "published", time_limit_minutes |-> 10, title |-> "Quiz F",
              questions |-> <<
                [id |-> "f1", question_text |-> "Fill in",
                 question_type |-> "fill_in_blank",
                 options |-> [acceptable |-> << <<"B">>, <<"b", "e", "e">> >>],
                 correct_answer |-> <<"B">>,
                 marks |-> 2, difficulty |-> "easy"] >>],
   quizM |-> [status |-> "published", time_limit_minutes |-> 10, title |-> "Quiz M",
              questions |-> <<
                [id |-> "m1", question_text |-> "Match three",
                 question_type |-> "matching",
                 options |-> <<"A", "B", "C", "1", "2", "3">>,
                 correct_answer |->
                   PairsJson(<< << <<"A">>, <<"1">> >>, << <<"B">>, <<"2">> >>,
                                << <<"C">>, <<"3">> >> >>),
                 marks |-> 3, difficulty |-> "easy"],
                [id |-> "m2", question_text |-> "Match two",
                 question_type |-> "matching",
                 options |-> <<"A", "B", "1", "2">>,
                 correct_answer |->
                   PairsJson(<< << <<"A">>, <<"1">> >>, << <<"B">>, <<"2">> >> >>),
                 marks |-> 3, difficulty |-> "easy"] >>],
   quizO |-> [status |-> "published", time_limit_minutes |-> 10, title |-> "Quiz O",
              questions |-> <<
                [id |-> "o1", question_text |-> "Put in order",
                 question_type |-> "ordering",
                 options |-> <<"x", "y">>,
                 correct_answer |-> <<"[", "1", ",", "2", "]">>,
                 marks |-> 2, difficulty |-> "easy"] >>],
   quizS |-> [status |-> "published", time_limit_minutes |-> 10, title |-> "Quiz S",
              questions |-> <<
                [id |-> "s1", question_text |-> "Name it",
                 question_type |-> "short_answer",
                 options |-> <<>>,
                 correct_answer |-> <<"B", "l", "u", "e", " ", "B", "a", "l", "l">>,
                 marks |-> 3, difficulty |-> "easy"] >>]]
QuizIds == DOMAIN Quizzes

\* The clients of the default runs: the student S1 joins and answers, the
\* host T1 and the admin A1 send /next and /end; generateJoinCode() draws the
\* one code the clients then use.
DefaultEnv ==
  [codes |-> {"100000"},
   quizzes |-> {"quizA", "draft"},
   joiners |-> {"S1"},
   answerers |-> {"S1"},
   answers |-> {JsString(<<" ", "B">>), JsUndefined, JsNumber},
   operators |-> {"T1", "A1"},
   viewers |-> {}]

-----------------------------------------------------------------------------
(* Helpers.                                                                *)

\* Date.now() is in milliseconds; a handler that calls it reads some clock
\* value t not before the latest one read
MsPerSecond == 1000
ClockValues == now..MaxClock
DateNow(t) == t * MsPerSecond

\* authMiddleware + roleMiddleware(...allowedRoles)
RoleAllowed(user, allowedRoles) == Roles[user] \in allowedRoles

\* liveSessions.get(code)
GetSession(code) == IF code \in Codes THEN liveSessions[code] ELSE NoSession

\* session.participants.has(userId): participants is a Map kept in insertion order
ParticipantIndex(s, userId) ==
  {i \in 1..Len(session[s].participants) : session[s].participants[i].userId = userId}

\* the membership test left out
HasParticipantNever(s, userId) == FALSE

HasParticipant(s, userId) == ParticipantIndex(s, userId) # {}

\* a sort that puts the later of two equal scores first
InsertByScoreTiesReversed(sorted, p) ==
  LET higher == SelectSeq(sorted, LAMBDA x : x.score > p.score)
      others == SelectSeq(sorted, LAMBDA x : x.score <= p.score)
  IN higher \o <<p>> \o others

\* Array.prototype.sort((a, b) => b.score - a.score): stable, score descending
RECURSIVE InsertByScore(_, _)
InsertByScore(sorted, p) ==
  IF sorted = <<>> THEN <<p>>
  ELSE IF Head(sorted).score >= p.score
       THEN <<Head(sorted)>> \o InsertByScore(Tail(sorted), p)
       ELSE <<p>> \o sorted

RECURSIVE SortByScoreDesc(_)
SortByScoreDesc(ps) ==
  IF ps = <<>> THEN <<>>
  ELSE InsertByScore(SortByScoreDesc(SubSeq(ps, 1, Len(ps) - 1)), ps[Len(ps)])

\* the leaderboard of /next and /end
Leaderboard(s) ==
  LET sorted == SortByScoreDesc(session[s].participants)
  IN [i \in 1..Len(sorted) |->
        [rank |-> i, name |-> sorted[i].name, score |-> sorted[i].score]]

\* a connection of GET /stream before the request: nothing was written to it
IdleStream == [status |-> "idle", session |-> NoSession, received |-> <<>>]

\* a handler segment that does not call broadcastSSE
NoBroadcast ==
  /\ emitted' = <<>>
  /\ UNCHANGED <<sseClients, streams>>

\* res.write(msg) throws
WriteThrows(stream) == stream.status = "broken"

\* res.write(msg) putting the message in front of what was written before
ResWriteInFront(stream, msg) == [stream EXCEPT !.received = <<msg>> \o @]

\* res.write(msg)
ResWrite(stream, msg) == [stream EXCEPT !.received = Append(@, msg)]

\* a filter that stops at the first write that throws
ClientsBeforeThrow(s) ==
  LET throwing == {k \in 1..Len(sseClients[s]) : WriteThrows(streams[sseClients[s][k]])}
  IN IF throwing = {} THEN sseClients[s]
     ELSE SubSeq(sseClients[s], 1, (CHOOSE k \in throwing : \A j \in throwing : k <= j) - 1)

\* session.sseClients.filter(...): the clients whose write does not throw
KeptClients(s) == SelectSeq(sseClients[s], LAMBDA c : ~WriteThrows(streams[c]))

\* broadcastSSE that writes to nobody
BroadcastSSEToNobody(s, event, data) ==
  /\ emitted' = <<[session |-> s, event |-> event, data |-> data]>>
  /\ UNCHANGED <<sseClients, streams>>

\* broadcastSSE(session, event, data): res.write(msg) on every client of the
\* session in order; the clients whose write throws are filtered out of
\* session.sseClients
BroadcastSSE(s, event, data) ==
  /\ emitted' = <<[session |-> s, event |-> event, data |-> data]>>
  /\ sseClients' = [sseClients EXCEPT ![s] = KeptClients(s)]
  /\ streams' = [c \in ConnIds |->
                   IF \E k \in 1..Len(KeptClients(s)) : KeptClients(s)[k] = c
                   THEN ResWrite(streams[c], [event |-> event, data |-> data])
                   ELSE streams[c]]

NoBody == [none |-> TRUE]
Response(op, user, status, error) ==
  [op |-> op, user |-> user, status |-> status, error |-> error, body |-> NoBody]
\* res.json(body) with status 200
Reply(op, user, body) ==
  [op |-> op, user |-> user, status |-> 200, error |-> "", body |-> body]

\* a handler that answers with an error and touches nothing else
\* (no route below constrains inflight or env: the actions at the end do)
Reject(op, user, status, error) ==
  /\ resp' = Response(op, user, status, error)
  /\ NoBroadcast
  /\ UNCHANGED <<liveSessions, session, freeSessions, timers, now, pendingJoins, pendingSubmits,
                 finalizers, quizAttempts, studentAnswers, idCounter>>

-----------------------------------------------------------------------------
(* Initial state: the server has started, no live session exists.          *)

NoResponse == Response("none", "none", 0, "")

InitCommon ==
  /\ liveSessions = [c \in Codes |-> NoSession]
  /\ session = [s \in SessionIds |-> [status |-> "unallocated"]]
  /\ timers = [c \in Codes |-> 0]
  /\ now = 0
  /\ pendingJoins = {}
  /\ pendingSubmits = {}
  /\ finalizers = {}
  /\ quizAttempts = {}
  /\ studentAnswers = {}
  /\ idCounter = 0
  /\ inflight = {}
  /\ resp = NoResponse
  /\ emitted = <<>>
  /\ sseClients = [s \in SessionIds |-> <<>>]
  /\ streams = [c \in ConnIds |-> IdleStream]

Init == InitCommon /\ freeSessions = {"s1"} /\ env = DefaultEnv

-----------------------------------------------------------------------------
(* POST /api/quizzes/:id/start-live                                        *)

\* the collision test left out
CodeInUseUnchecked(joinCode) == FALSE

\* liveSessions.has(joinCode)
CodeInUse(joinCode) == liveSessions[joinCode] # NoSession

\* (quiz.time_limit_minutes || 30) * 60 / qs.length
QuestionTimeLimit(quiz) ==
  ((IF quiz.time_limit_minutes = 0 THEN 30 ELSE quiz.time_limit_minutes) * 60)
    \div Len(quiz.questions)

\* a session created with its first question as the current one
NewSessionAtFirstQuestion(quizId, user) ==
  [quizId |-> quizId,
   teacherId |-> user,
   status |-> "waiting",
   currentQuestionIndex |-> 0,
   questionStartedAt |-> 0,
   questionTimeLimit |-> QuestionTimeLimit(Quizzes[quizId]),
   participants |-> <<>>,
   questions |-> Quizzes[quizId].questions]

\* the LiveSession object of start-live
NewSession(quizId, user) ==
  [quizId |-> quizId,
   teacherId |-> user,
   status |-> "waiting",
   currentQuestionIndex |-> -1,
   questionStartedAt |-> 0,
   questionTimeLimit |-> QuestionTimeLimit(Quizzes[quizId]),
   participants |-> <<>>,
   questions |-> Quizzes[quizId].questions]

StartLive(quizId, user) ==
  IF ~RoleAllowed(user, {"teacher", "admin"})
  THEN Reject("start-live", user, 403, "Insufficient permissions")
  ELSE IF quizId \notin DOMAIN Quizzes
  THEN Reject("start-live", user, 404, "Quiz not found")
  ELSE IF Quizzes[quizId].status # "published"
  THEN Reject("start-live", user, 400, "Quiz must be published to start live")
  ELSE IF Len(Quizzes[quizId].questions) = 0
  THEN Reject("start-live", user, 400, "Quiz has no questions")
  ELSE \* do { joinCode = generateJoinCode() } while (liveSessions.has(joinCode))
       \E joinCode \in env.codes, s \in freeSessions :
         /\ ~CodeInUse(joinCode)
         /\ session' = [session EXCEPT ![s] = NewSession(quizId, user)]
         /\ liveSessions' = [liveSessions EXCEPT ![joinCode] = s]
         /\ freeSessions' = freeSessions \ {s}
         /\ resp' = Reply("start-live", user,
                          [join_code |-> joinCode,
                           quiz_title |-> Quizzes[quizId].title,
                           question_count |-> Len(Quizzes[quizId].questions),
                           time_per_question |-> QuestionTimeLimit(Quizzes[quizId])])
         /\ NoBroadcast
         /\ UNCHANGED <<timers, now, pendingJoins, pendingSubmits, finalizers, quizAttempts,
                        studentAnswers, idCounter>>

-----------------------------------------------------------------------------
(* GET /api/live/:code/stream on the connection c, and what happens to a   *)
(* connection afterwards: its socket breaks, so that res.write throws, or  *)
(* the request emits "close".                                              *)

StreamHandler(code, user, c) ==
  LET s == GetSession(code) IN
  /\ streams[c].status = "idle"
  /\ IF s = NoSession THEN Reject("stream", user, 404, "Session not found")
     ELSE /\ streams' = [streams EXCEPT
                           ![c] = [status |-> "open",
                                   session |-> s,
                                   received |-> <<[event |-> "connected",
                                                   data |-> [status |-> session[s].status]]>>]]
          /\ sseClients' = [sseClients EXCEPT ![s] = Append(@, c)]
          /\ emitted' = <<>>
          /\ resp' = Response("stream", user, 200, "")
          /\ UNCHANGED <<liveSessions, session, freeSessions, timers, now, pendingJoins,
                         pendingSubmits, finalizers, quizAttempts, studentAnswers,
                         idCounter>>

\* the socket of c breaks
StreamBreak(c) ==
  /\ streams[c].status = "open"
  /\ streams' = [streams EXCEPT ![c].status = "broken"]
  /\ emitted' = <<>>
  /\ UNCHANGED <<liveSessions, session, freeSessions, timers, now, pendingJoins,
                 pendingSubmits, finalizers, quizAttempts, studentAnswers, idCounter,
                 resp, sseClients>>

\* req.on("close", ...)
StreamClose(c) ==
  /\ streams[c].status \in {"open", "broken"}
  /\ streams' = [streams EXCEPT ![c].status = "closed"]
  /\ sseClients' = [sseClients EXCEPT
                      ![streams[c].session] = SelectSeq(@, LAMBDA x : x # c)]
  /\ emitted' = <<>>
  /\ UNCHANGED <<liveSessions, session, freeSessions, timers, now, pendingJoins,
                 pendingSubmits, finalizers, quizAttempts, studentAnswers, idCounter,
                 resp>>

-----------------------------------------------------------------------------
(* POST /api/live/:code/join                                               *)

NewParticipant(user) ==
  [userId |-> user, name |-> UserNames[user], score |-> 0, answers |-> <<>>]

JoinSummary(s, count) ==
  [status |-> session[s].status,
   participant_count |-> count,
   question_count |-> Len(session[s].questions)]

\* up to the await of the users lookup
JoinBegin(code, user) ==
  LET s == GetSession(code) IN
  IF s = NoSession THEN Reject("join", user, 404, "Session not found")
  ELSE IF session[s].status = "ended"
  THEN Reject("join", user, 400, "Session has ended")
  ELSE /\ [session |-> s, user |-> user] \notin pendingJoins
       /\ pendingJoins' = pendingJoins \cup {[session |-> s, user |-> user]}
       /\ NoBroadcast
       /\ UNCHANGED <<liveSessions, session, freeSessions, timers, now, pendingSubmits,
                      finalizers, quizAttempts, studentAnswers, idCounter, resp>>

\* from the await to the response
JoinFinish(j) ==
  LET s == j.session
      user == j.user
  IN
  /\ pendingJoins' = pendingJoins \ {j}
  /\ IF ~HasParticipant(s, user)
     THEN /\ session' = [session EXCEPT
                           ![s].participants = Append(@, NewParticipant(user))]
          /\ BroadcastSSE(s, "participant_joined",
                          [user_id |-> user, name |-> UserNames[user],
                           participant_count |-> Len(session[s].participants) + 1])
          /\ resp' = Reply("join", user,
                           JoinSummary(s, Len(session[s].participants) + 1))
     ELSE /\ UNCHANGED session
          /\ NoBroadcast
          /\ resp' = Reply("join", user, JoinSummary(s, Len(session[s].participants)))
  /\ UNCHANGED <<liveSessions, freeSessions, timers, now, pendingSubmits, finalizers,
                 quizAttempts, studentAnswers, idCounter>>

-----------------------------------------------------------------------------
(* POST /api/live/:code/next                                               *)

\* the host check left out
IsHostUnchecked(s, user) == TRUE

\* session.teacherId !== req.user.userId
IsHost(s, user) == session[s].teacherId = user

\* the increment skipping a question
NextIndexSkipping(s) == session[s].currentQuestionIndex + 2

\* session.currentQuestionIndex++
NextIndex(s) == session[s].currentQuestionIndex + 1

RECURSIVE SumMarks(_)
SumMarks(qs) == IF qs = <<>> THEN 0 ELSE Head(qs).marks + SumMarks(Tail(qs))

\* Math.round((score / totalMarks) * 100 * 100) / 100, kept in hundredths of a
\* percent (the column is numeric(5, 2))
Percentage(score, totalMarks) ==
  IF totalMarks > 0 THEN (2 * score * 10000 + totalMarks) \div (2 * totalMarks) ELSE 0

\* the row of db.insert(quizAttempts) for the participant at position pos
AttemptRow(s, pos, attemptId) ==
  LET p == session[s].participants[pos]
      totalMarks == SumMarks(session[s].questions)
  IN [table |-> "quiz_attempts",
      row |-> [id |-> attemptId,
               quiz_id |-> session[s].quizId,
               student_id |-> p.userId,
               total_marks |-> totalMarks,
               score |-> p.score,
               percentage |-> Percentage(p.score, totalMarks),
               status |-> "evaluated"]]

\* the row of db.insert(studentAnswers) for one answer record
AnswerRow(s, attemptId, ans) ==
  LET q == session[s].questions[ans.questionIndex + 1]
  IN [table |-> "student_answers",
      row |-> [attempt_id |-> attemptId,
               question_id |-> q.id,
               answer_text |-> ans.answer,
               is_correct |-> ans.correct,
               marks_awarded |-> IF ans.correct THEN q.marks ELSE 0,
               ai_feedback |->
                 IF ans.correct
                 THEN [text |-> "Correct!", answer |-> <<>>]
                 ELSE [text |-> "Incorrect. The correct answer is: ",
                       answer |-> q.correct_answer]]]

\* const q = session.questions[ans.questionIndex]; if (q) ...
\* the first answer after position apos whose question exists, 0 when none
NextAnswerPos(s, pos, apos) ==
  LET answers == session[s].participants[pos].answers
      ok == {k \in (apos + 1)..Len(answers) :
               answers[k].questionIndex + 1 \in DOMAIN session[s].questions}
  IN IF ok = {} THEN 0 ELSE CHOOSE k \in ok : \A m \in ok : k <= m

\* The save loop from one await to the next: with the participant at pos and
\* apos of its answers done, start the next insert, or answer the request.
\* Both loops iterate the live Map and the live array.
SaveLoop(s, user, pos, apos, attemptId, leaderboard, others) ==
  LET k == IF pos = 0 THEN 0 ELSE NextAnswerPos(s, pos, apos)
  IN
  IF k # 0
  THEN /\ finalizers' = others \cup
            {[session |-> s, user |-> user, pos |-> pos, apos |-> k,
              attemptId |-> attemptId, leaderboard |-> leaderboard,
              insert |-> AnswerRow(s, attemptId,
                                   session[s].participants[pos].answers[k])]}
       /\ UNCHANGED <<idCounter, resp>>
  ELSE IF pos < Len(session[s].participants)
  THEN /\ idCounter' = idCounter + 1
       /\ finalizers' = others \cup
            {[session |-> s, user |-> user, pos |-> pos + 1, apos |-> 0,
              attemptId |-> idCounter + 1, leaderboard |-> leaderboard,
              insert |-> AttemptRow(s, pos + 1, idCounter + 1)]}
       /\ UNCHANGED resp
  ELSE /\ finalizers' = others
       /\ resp' = Reply("next", user,
                        [status |-> "ended", leaderboard |-> leaderboard])
       /\ UNCHANGED idCounter

\* the data of the question event for the question q
QuestionEvent(q, index, total, timeLimit) ==
  [index |-> index,
   total |-> total,
   question_text |-> q.question_text,
   question_type |-> q.question_type,
   options |-> q.options,
   marks |-> q.marks,
   difficulty |-> q.difficulty,
   time_limit |-> timeLimit]

PublicQuestion(s, index) ==
  QuestionEvent(session[s].questions[index + 1], index, Len(session[s].questions),
                session[s].questionTimeLimit)

\* from the start of the handler to its first await or its response
NextHandler(code, user) ==
  LET s == GetSession(code) IN
  IF ~RoleAllowed(user, {"teacher", "admin"})
  THEN Reject("next", user, 403, "Insufficient permissions")
  ELSE IF s = NoSession THEN Reject("next", user, 404, "Session not found")
  ELSE IF ~IsHost(s, user) THEN Reject("next", user, 403, "Not the session host")
  ELSE
    LET index == NextIndex(s) IN
    /\ index <= Len(session[s].questions) + MaxOverrun
    /\ index >= Len(session[s].questions) /\ session[s].participants # <<>>
         => Cardinality(finalizers) < MaxFinalizers
    /\ IF index >= Len(session[s].questions)
       THEN \* Quiz is over
            /\ session' = [session EXCEPT ![s].currentQuestionIndex = index,
                                          ![s].status = "ended"]
            /\ BroadcastSSE(s, "quiz_ended",
                                       [leaderboard |-> Leaderboard(s)])
            /\ SaveLoop(s, user, 0, 0, 0, Leaderboard(s), finalizers)
            /\ UNCHANGED <<liveSessions, freeSessions, timers, now, pendingJoins, pendingSubmits,
                           quizAttempts, studentAnswers>>
       ELSE /\ \E t \in ClockValues :
                 /\ now' = t
                 /\ session' = [session EXCEPT ![s].currentQuestionIndex = index,
                                               ![s].status = "question",
                                               ![s].questionStartedAt = DateNow(t)]
            /\ BroadcastSSE(s, "question", PublicQuestion(s, index))
            /\ resp' = Reply("next", user,
                             [status |-> "question", question_index |-> index,
                              total_questions |-> Len(session[s].questions)])
            /\ UNCHANGED <<liveSessions, freeSessions, timers, pendingJoins, pendingSubmits,
                           finalizers, quizAttempts, studentAnswers, idCounter>>

\* an awaited insert of the save loop completes and the handler runs on
FinalizerStep(f) ==
  /\ IF f.insert.table = "quiz_attempts"
     THEN /\ quizAttempts' = quizAttempts \cup {f.insert.row}
          /\ UNCHANGED studentAnswers
     ELSE /\ studentAnswers' = studentAnswers \cup {f.insert.row}
          /\ UNCHANGED quizAttempts
  /\ SaveLoop(f.session, f.user, f.pos, f.apos, f.attemptId, f.leaderboard,
              finalizers \ {f})
  /\ NoBroadcast
  /\ UNCHANGED <<liveSessions, session, freeSessions, timers, now, pendingJoins, pendingSubmits>>

\* an awaited insert of the save loop rejects: the handler has no try/catch,
\* so it ends there and the rest of the loop never runs; the rejection goes
\* to the error middleware (500) or to process.on("unhandledRejection"),
\* which logs it and sends nothing
FinalizerFail(f) ==
  /\ finalizers' = finalizers \ {f}
  /\ resp' \in {resp, Response("next", f.user, 500, "Internal Server Error")}
  /\ NoBroadcast
  /\ UNCHANGED <<liveSessions, session, freeSessions, timers, now, pendingJoins, pendingSubmits,
                 quizAttempts, studentAnswers, idCounter>>

-----------------------------------------------------------------------------
(* POST /api/live/:code/answer                                             *)

\* the status check left out
NoActiveQuestionUnchecked(s) == FALSE

\* session.status !== "question"
NoActiveQuestion(s) == session[s].status # "question"

\* the duplicate check comparing the latest record with the wrong index
AlreadyAnsweredOffByOne(p, index) ==
  p.answers # <<>> /\ p.answers[Len(p.answers)].questionIndex = index + 1

\* participant.answers.some((a) => a.questionIndex === index)
AlreadyAnswered(p, index) == \E k \in 1..Len(p.answers) : p.answers[k].questionIndex = index

\* the comparison without toLowerCase()
IsCorrectCaseSensitive(answer, q) ==
  /\ answer.t = "string"
  /\ Trim(answer.v) = Trim(q.correct_answer)

\* answer?.trim().toLowerCase() === q.correct_answer.trim().toLowerCase()
\* (undefined on the left when the answer is missing)
IsCorrect(answer, q) ==
  /\ answer.t = "string"
  /\ ToLowerCase(Trim(answer.v)) = ToLowerCase(Trim(q.correct_answer))

\* participant.score += q.marks whatever the verdict
ScoreAfterAnyAnswer(p, q, isCorrect) == p.score + q.marks

\* if (isCorrect) participant.score += q.marks
ScoreAfter(p, q, isCorrect) == IF isCorrect THEN p.score + q.marks ELSE p.score

\* answer || ""
StoredAnswer(answer) == IF answer.t = "string" THEN answer.v ELSE <<>>

\* the count taken before the record of the submitter was pushed
AnsweredCountBeforePush(ps, index) ==
  Cardinality({i \in 1..Len(ps) : AlreadyAnswered(ps[i], index)}) - 1

\* participants that hold an answer record for the question at index
AnsweredCount(ps, index) ==
  Cardinality({i \in 1..Len(ps) : AlreadyAnswered(ps[i], index)})

AnswerHandler(code, user, answer) ==
  LET s == GetSession(code) IN
  IF s = NoSession THEN Reject("answer", user, 404, "Session not found")
  ELSE IF NoActiveQuestion(s) THEN Reject("answer", user, 400, "No active question")
  ELSE IF ~HasParticipant(s, user) THEN Reject("answer", user, 400, "Not a participant")
  ELSE
    LET i == CHOOSE i \in ParticipantIndex(s, user) : TRUE
        p == session[s].participants[i]
        index == session[s].currentQuestionIndex
    IN
    IF AlreadyAnswered(p, index) THEN Reject("answer", user, 400, "Already answered")
    ELSE IF answer.t \notin {"string", "undefined"}
    THEN \* TypeError: answer.trim is not a function
         Reject("answer", user, 500, "TypeError")
    ELSE IF index + 1 \notin DOMAIN session[s].questions
    THEN \* TypeError: q is undefined
         Reject("answer", user, 500, "TypeError")
    ELSE
      \E t \in ClockValues :
        LET q == session[s].questions[index + 1]
            isCorrect == IsCorrect(answer, q)
            timeTaken == (DateNow(t) - session[s].questionStartedAt) \div MsPerSecond
            record == [questionIndex |-> index, answer |-> StoredAnswer(answer),
                       correct |-> isCorrect, time |-> timeTaken]
            score == ScoreAfter(p, q, isCorrect)
            after == [session[s].participants EXCEPT
                        ![i].score = score, ![i].answers = Append(@, record)]
        IN
        /\ now' = t
        /\ session' = [session EXCEPT ![s].participants = after]
        /\ BroadcastSSE(s, "answer_update",
                                   [answered |-> AnsweredCount(after, index),
                                    total |-> Len(after)])
        /\ resp' = Reply("answer", user, [correct |-> isCorrect, score |-> score])
        /\ UNCHANGED <<liveSessions, freeSessions, timers, pendingJoins, pendingSubmits,
                       finalizers, quizAttempts, studentAnswers, idCounter>>

-----------------------------------------------------------------------------
(* POST /api/quizzes/:id/submit: the scorer of the asynchronous route.     *)

\* a property read on a parsed value: the last member with that key
GetProp(value, key) ==
  LET hits == IF value.t = "object"
              THEN {i \in 1..Len(value.v) : value.v[i].k = key} ELSE {}
  IN IF hits = {} THEN JsUndefined
     ELSE value.v[CHOOSE i \in hits : \A k \in hits : k <= i].x

\* x?.trim().toLowerCase(): undefined for undefined and null, a TypeError for
\* what has no trim
OptionalTrimLower(x) ==
  IF x.t \in {"undefined", "null"} THEN [threw |-> FALSE, v |-> JsUndefined]
  ELSE IF x.t = "string"
  THEN [threw |-> FALSE, v |-> JsString(ToLowerCase(Trim(x.v)))]
  ELSE [threw |-> TRUE, v |-> JsUndefined]

\* a === b on strings, numbers, undefined and null; two parsed arrays or
\* objects are never the same object
StrictEquals(a, b) ==
  /\ a.t = b.t
  /\ a.t \in {"string", "number", "undefined", "null"}
  /\ a.v = b.v

\* the callback of studentPairs.find for the canonical pair cp
PairMatches(sp, cp) ==
  LET l1 == OptionalTrimLower(GetProp(sp, <<"left">>))
      l2 == OptionalTrimLower(GetProp(cp, <<"left">>))
      r1 == OptionalTrimLower(GetProp(sp, <<"right">>))
      r2 == OptionalTrimLower(GetProp(cp, <<"right">>))
  IN IF sp.t = "null" \/ cp.t = "null" THEN "throw"
     ELSE IF l1.threw \/ l2.threw THEN "throw"
     ELSE IF ~StrictEquals(l1.v, l2.v) THEN "no"
     ELSE IF r1.threw \/ r2.threw THEN "throw"
     ELSE IF StrictEquals(r1.v, r2.v) THEN "yes" ELSE "no"

\* studentPairs.find(...): the elements in order up to the first match
RECURSIVE FindMatch(_, _)
FindMatch(sps, cp) ==
  IF sps = <<>> THEN "no"
  ELSE LET m == PairMatches(Head(sps), cp)
       IN IF m = "no" THEN FindMatch(Tail(sps), cp) ELSE m

\* for (const cp of correctPairs) { ... if (match) matchCount++ }
RECURSIVE MatchCount(_, _, _)
MatchCount(studentPairs, cps, matchCount) ==
  IF cps = <<>> THEN [threw |-> FALSE, n |-> matchCount]
  ELSE IF studentPairs.t # "array"
  THEN \* studentPairs.find is not a function
       [threw |-> TRUE, n |-> 0]
  ELSE LET m == FindMatch(studentPairs.v, Head(cps))
       IN IF m = "throw" THEN [threw |-> TRUE, n |-> 0]
          ELSE MatchCount(studentPairs, Tail(cps),
                          IF m = "yes" THEN matchCount + 1 ELSE matchCount)

\* Math.floor in place of Math.round
MathFloor(num, den) == num \div den

\* Math.round(num / den) for num >= 0 and den > 0: halves go up
MathRound(num, den) == (2 * num + den) \div (2 * den)

\* String(ans.answer), as JSON.parse sees its argument
AnswerText(answer) ==
  IF answer.t \in {"string", "number"} THEN answer.v ELSE <<"undefined">>

Verdict(isCorrect, marksAwarded, text, detail) ==
  [threw |-> FALSE, isCorrect |-> isCorrect, marksAwarded |-> marksAwarded,
   feedback |-> [text |-> text, answer |-> detail]]

\* the try block of the matching branch, after the two JSON.parse
MatchingVerdict(q, studentPairs, correctPairs) ==
  LET \* what for...of iterates: the elements of an array, the characters of
      \* a string
      cps == IF correctPairs.v.t = "array" THEN correctPairs.v.v
             ELSE [i \in 1..Len(correctPairs.v.v) |-> JsString(<<correctPairs.v.v[i]>>)]
      m == MatchCount(studentPairs.v, cps, 0)
      caught == Verdict(FALSE, 0, "Invalid answer format for matching question.", <<>>)
  IN IF ~studentPairs.ok \/ ~correctPairs.ok THEN caught
     ELSE IF correctPairs.v.t \notin {"array", "string"} THEN caught
     ELSE IF m.threw THEN caught
     ELSE Verdict(m.n = Len(cps),
                  IF Len(cps) > 0 THEN MathRound(q.marks * m.n, Len(cps)) ELSE 0,
                  IF m.n = Len(cps) THEN "Correct! All pairs matched."
                                    ELSE "pairs correct.",
                  IF m.n = Len(cps) THEN <<>>
                                    ELSE <<ToString(m.n), "/", ToString(Len(cps))>>)

ScoreMatching(q, answer) ==
  MatchingVerdict(q, JsonParse(AnswerText(answer)), JsonParse(q.correct_answer))

\* the try block of the ordering branch, after the two JSON.parse
OrderingVerdict(q, studentOrder, correctOrder) ==
  LET isCorrect ==
        /\ studentOrder.v.t = "array"
        /\ correctOrder.v.t = "array"
        /\ Len(studentOrder.v.v) = Len(correctOrder.v.v)
        /\ \A i \in 1..Len(studentOrder.v.v) :
             StrictEquals(studentOrder.v.v[i], correctOrder.v.v[i])
  IN IF ~studentOrder.ok \/ ~correctOrder.ok
     THEN Verdict(FALSE, 0, "Invalid answer format for ordering question.", <<>>)
     ELSE Verdict(isCorrect, IF isCorrect THEN q.marks ELSE 0,
                  IF isCorrect THEN "Correct order!" ELSE "Incorrect order.", <<>>)

ScoreOrdering(q, answer) ==
  OrderingVerdict(q, JsonParse(AnswerText(answer)), JsonParse(q.correct_answer))

\* (opts?.acceptable || [q.correct_answer]).map(trim, toLowerCase)
Acceptable(q) ==
  LET list == IF "acceptable" \in DOMAIN q.options
              THEN q.options.acceptable ELSE <<q.correct_answer>>
  IN [i \in 1..Len(list) |-> ToLowerCase(Trim(list[i]))]

ScoreFillInBlank(q, answer) ==
  LET studentAnswer == ToLowerCase(Trim(answer.v))
      isCorrect == \E i \in 1..Len(Acceptable(q)) : Acceptable(q)[i] = studentAnswer
  IN Verdict(isCorrect, IF isCorrect THEN q.marks ELSE 0,
             IF isCorrect THEN "Correct!" ELSE "Incorrect. Acceptable answers: ",
             IF isCorrect THEN <<>> ELSE JoinComma(Acceptable(q)))

ScoreChoice(q, answer) ==
  LET isCorrect == ToLowerCase(Trim(answer.v)) = ToLowerCase(Trim(q.correct_answer))
  IN Verdict(isCorrect, IF isCorrect THEN q.marks ELSE 0,
             IF isCorrect THEN "Correct!" ELSE "Incorrect. The correct answer is: ",
             IF isCorrect THEN <<>> ELSE q.correct_answer)

\* correctLower.split(" ").filter((w) => w.length > 3)
\*   .some((word) => studentLower.includes(word))
LongWords(s) == SelectSeq(Split(s), LAMBDA w : Len(w) > 3)

ScoreShortAnswer(q, answer) ==
  LET studentLower == ToLowerCase(Trim(answer.v))
      correctLower == ToLowerCase(Trim(q.correct_answer))
      words == LongWords(correctLower)
  IN IF studentLower = correctLower THEN Verdict(TRUE, q.marks, "Correct!", <<>>)
     ELSE IF \E i \in 1..Len(words) : Includes(studentLower, words[i])
     THEN \* Math.ceil(q.marks * 0.5)
          Verdict(FALSE, (q.marks + 1) \div 2, "Partial credit. Expected: ",
                  q.correct_answer)
     ELSE Verdict(FALSE, 0, "Incorrect. Expected: ", q.correct_answer)

\* the body of the scoring loop for one submitted answer; threw when
\* ans.answer.trim is not a function (no try/catch around these branches)
SubmitScore(q, answer) ==
  IF q.question_type = "matching" THEN ScoreMatching(q, answer)
  ELSE IF q.question_type = "ordering" THEN ScoreOrdering(q, answer)
  ELSE IF answer.t # "string"
  THEN [threw |-> TRUE, isCorrect |-> FALSE, marksAwarded |-> 0,
        feedback |-> [text |-> "", answer |-> <<>>]]
  ELSE IF q.question_type \in {"mcq", "true_false"} THEN ScoreChoice(q, answer)
  ELSE IF q.question_type = "fill_in_blank" THEN ScoreFillInBlank(q, answer)
  ELSE ScoreShortAnswer(q, answer)

-----------------------------------------------------------------------------
(* POST /api/quizzes/:id/submit.  The body is {attempt_id, answers}, the   *)
(* answers a list of {question_id, answer}; the clients of the model       *)
(* always send both fields.  The XP, badge and streak updates that follow  *)
(* the transaction are not modelled.                                       *)

\* SQL NULL in the integer and numeric columns score and percentage
SqlNull == -1

\* a row of quiz_attempts as POST /api/quizzes/:id/attempt inserts it
InProgressAttempt(attemptId, quizId, user) ==
  [id |-> attemptId,
   quiz_id |-> quizId,
   student_id |-> user,
   total_marks |-> SumMarks(Quizzes[quizId].questions),
   score |-> SqlNull,
   percentage |-> SqlNull,
   status |-> "in_progress"]

\* questionMap.get(ans.question_id)
QuestionsWithId(quizId, questionId) ==
  SelectSeq(Quizzes[quizId].questions, LAMBDA q : q.id = questionId)

\* the submitted answers whose question exists (if (!q) continue)
KnownAnswers(quizId, answers) ==
  SelectSeq(answers, LAMBDA ans : QuestionsWithId(quizId, ans.question_id) # <<>>)

RECURSIVE SumOver(_, _)
SumOver(items, field) ==
  IF items = <<>> THEN 0 ELSE Head(items)[field] + SumOver(Tail(items), field)

\* up to the await of the attempt lookup and the checks on its result
SubmitBegin(quizId, user, body) ==
  LET found == {a \in quizAttempts :
                  /\ a.id = body.attempt_id
                  /\ a.quiz_id = quizId
                  /\ a.student_id = user}
      p == [quizId |-> quizId, user |-> user, body |-> body]
  IN
  IF ~RoleAllowed(user, {"student"})
  THEN Reject("submit", user, 403, "Insufficient permissions")
  ELSE IF found = {} THEN Reject("submit", user, 404, "Attempt not found")
  ELSE IF \E a \in found : a.status # "in_progress"
  THEN Reject("submit", user, 400, "Attempt already submitted")
  ELSE /\ Cardinality(pendingSubmits) < MaxPendingSubmits
       /\ p \notin pendingSubmits
       /\ pendingSubmits' = pendingSubmits \cup {p}
       /\ NoBroadcast
       /\ UNCHANGED <<liveSessions, session, freeSessions, timers, now, pendingJoins,
                      finalizers, quizAttempts, studentAnswers, idCounter, resp>>

\* the scoring loop: for every submitted answer whose question exists, the
\* question and what the scorer says of the answer
ScoringLoop(quizId, answers) ==
  LET known == KnownAnswers(quizId, answers)
  IN [i \in 1..Len(known) |->
        LET q == Head(QuestionsWithId(quizId, known[i].question_id))
        IN [question_id |-> known[i].question_id,
            answer_text |-> known[i].answer.v,
            marks |-> q.marks,
            scored |-> SubmitScore(q, known[i].answer)]]

\* the transaction and the response, for the outcome of the scoring loop
SubmitTransaction(p, loop, totalScore, totalMarks) ==
  IF \E i \in 1..Len(loop) : loop[i].scored.threw
  THEN \* TypeError out of the handler: nothing is written
       /\ resp' \in {resp, Response("submit", p.user, 500, "Internal Server Error")}
       /\ UNCHANGED <<quizAttempts, studentAnswers>>
  ELSE /\ studentAnswers' =
            studentAnswers \cup
              {[attempt_id |-> p.body.attempt_id,
                question_id |-> loop[i].question_id,
                answer_text |-> loop[i].answer_text,
                is_correct |-> loop[i].scored.isCorrect,
                marks_awarded |-> loop[i].scored.marksAwarded,
                ai_feedback |-> loop[i].scored.feedback] : i \in 1..Len(loop)}
       /\ quizAttempts' =
            {IF a.id = p.body.attempt_id
             THEN [a EXCEPT !.score = totalScore, !.total_marks = totalMarks,
                            !.percentage = Percentage(totalScore, totalMarks),
                            !.status = "evaluated"]
             ELSE a : a \in quizAttempts}
       /\ resp' = Reply("submit", p.user,
                        [attempt_id |-> p.body.attempt_id,
                         score |-> totalScore,
                         total_marks |-> totalMarks,
                         percentage |-> Percentage(totalScore, totalMarks),
                         status |-> "evaluated",
                         answers |->
                           [i \in 1..Len(loop) |->
                              [question_id |-> loop[i].question_id,
                               is_correct |-> loop[i].scored.isCorrect,
                               marks_awarded |-> loop[i].scored.marksAwarded,
                               feedback |-> loop[i].scored.feedback]]])

\* totalScore and totalMarks of the scoring loop
SubmitTotals(p, loop) ==
  SubmitTransaction(p, loop,
                    SumOver([i \in 1..Len(loop) |-> loop[i].scored], "marksAwarded"),
                    SumOver(loop, "marks"))

\* the scoring loop, the transaction and the response
SubmitFinish(p) ==
  /\ pendingSubmits' = pendingSubmits \ {p}
  /\ NoBroadcast
  /\ SubmitTotals(p, ScoringLoop(p.quizId, p.body.answers))
  /\ UNCHANGED <<liveSessions, session, freeSessions, timers, now, pendingJoins,
                 finalizers, idCounter>>

-----------------------------------------------------------------------------
(* POST /api/live/:code/end and its setTimeout                             *)

EndHandler(code, user) ==
  LET s == GetSession(code) IN
  IF ~RoleAllowed(user, {"teacher", "admin"})
  THEN Reject("end", user, 403, "Insufficient permissions")
  ELSE IF s = NoSession THEN Reject("end", user, 404, "Session not found")
  ELSE /\ timers[code] < MaxTimers
       /\ session' = [session EXCEPT ![s].status = "ended"]
       /\ BroadcastSSE(s, "quiz_ended", [leaderboard |-> Leaderboard(s)])
       /\ timers' = [timers EXCEPT ![code] = @ + 1]
       /\ resp' = Reply("end", user,
                        [status |-> "ended", leaderboard |-> Leaderboard(s)])
       /\ UNCHANGED <<liveSessions, freeSessions, now, pendingJoins, pendingSubmits, finalizers,
                      quizAttempts, studentAnswers, idCounter>>

\* () => liveSessions.delete(code), some time after the /end that set it
TimerFire(code) ==
  /\ timers[code] > 0
  /\ timers' = [timers EXCEPT ![code] = @ - 1]
  /\ liveSessions' = [liveSessions EXCEPT ![code] = NoSession]
  /\ UNCHANGED <<session, freeSessions, now, pendingJoins, pendingSubmits, finalizers,
                 quizAttempts, studentAnswers, idCounter, resp, emitted,
                 sseClients, streams>>

-----------------------------------------------------------------------------
(* GET /api/live/:code/status                                              *)

StatusLeaderboard(s) ==
  LET sorted == SortByScoreDesc(session[s].participants)
  IN [i \in 1..Len(sorted) |->
        [rank |-> i, name |-> sorted[i].name, score |-> sorted[i].score,
         user_id |-> sorted[i].userId]]

StatusHandler(code, user) ==
  LET s == GetSession(code) IN
  IF s = NoSession THEN Reject("status", user, 404, "Session not found")
  ELSE /\ resp' = Reply("status", user,
                        [status |-> session[s].status,
                         current_question |-> session[s].currentQuestionIndex,
                         total_questions |-> Len(session[s].questions),
                         participant_count |-> Len(session[s].participants),
                         leaderboard |-> StatusLeaderboard(s)])
       /\ NoBroadcast
       /\ UNCHANGED <<liveSessions, session, freeSessions, timers, now, pendingJoins, pendingSubmits,
                      finalizers, quizAttempts, studentAnswers, idCounter>>

-----------------------------------------------------------------------------
(* The server: every request is handled as soon as it is sent.             *)

DoStartLive ==
  \E q \in env.quizzes, u \in Hosts : StartLive(q, u) /\ UNCHANGED <<inflight, env>>
DoJoin ==
  \E c \in env.codes, u \in env.joiners : JoinBegin(c, u) /\ UNCHANGED <<inflight, env>>
DoJoinFinish == \E j \in pendingJoins : JoinFinish(j) /\ UNCHANGED <<inflight, env>>
DoNext ==
  \E c \in env.codes, u \in env.operators :
    NextHandler(c, u) /\ UNCHANGED <<inflight, env>>
DoFinalizerStep ==
  \E f \in finalizers : FinalizerStep(f) /\ UNCHANGED <<inflight, env>>
DoFinalizerFail ==
  \E f \in finalizers : FinalizerFail(f) /\ UNCHANGED <<inflight, env>>
DoAnswer ==
  \E c \in env.codes, u \in env.answerers, a \in env.answers :
    AnswerHandler(c, u, a) /\ UNCHANGED <<inflight, env>>
DoEnd ==
  \E c \in env.codes, u \in env.operators :
    EndHandler(c, u) /\ UNCHANGED <<inflight, env>>
DoTimerFire == \E c \in Codes : TimerFire(c) /\ UNCHANGED <<inflight, env>>
\* what a student pairs up in a matching question, as (left, right) lists
MatchingSubmissionSeq ==
  << << << <<"a", " ">>, <<"1">> >>, << <<"C">>, <<" ", "3">> >> >>,
     << << <<"c">>, <<"3">> >>, << <<"B">>, <<"2">> >>, << <<"A">>, <<"1">> >> >>,
     << << <<"B">>, <<"2">> >> >>,
     << << <<"1">>, <<"A">> >>, << <<"A">>, <<"2">> >> >>,
     <<>> >>

MatchingSubmissions == {MatchingSubmissionSeq[i] : i \in DOMAIN MatchingSubmissionSeq}

\* the (left, right) lists of the canonical answers of quiz M
CanonicalPairs(questionId) ==
  IF questionId = "m1"
  THEN << << <<"A">>, <<"1">> >>, << <<"B">>, <<"2">> >>, << <<"C">>, <<"3">> >> >>
  ELSE << << <<"A">>, <<"1">> >>, << <<"B">>, <<"2">> >> >>

\* the answers the clients send for a matching question: the submissions as
\* JSON, and texts that are not JSON arrays of pairs
MatchingAnswers ==
  [i \in DOMAIN MatchingSubmissionSeq |-> JsString(PairsJson(MatchingSubmissionSeq[i]))]
    \o <<JsString(<<"B">>), JsString(<<"[", "null", "]">>)>>

\* the answers they send for the fill_in_blank question
FillAnswers == <<JsString(<<"B", "e", "e", " ">>), JsString(<<"c">>), JsUndefined>>

\* the requests the clients send, each named by the attempt, the questions
\* it answers and the place of the answer it gives to each of them
Submissions ==
  {[quizId |-> "quizM", attempt_id |-> 1, questions |-> <<"m1", "m2", "f1">>,
    answer |-> i] : i \in DOMAIN MatchingAnswers}
  \cup
  {[quizId |-> "quizF", attempt_id |-> 2, questions |-> <<"f1">>,
    answer |-> Len(MatchingAnswers) + i] : i \in DOMAIN FillAnswers}

\* req.body of the request b
SubmitBody(b) ==
  [attempt_id |-> b.attempt_id,
   answers |-> [k \in DOMAIN b.questions |->
                  [question_id |-> b.questions[k],
                   answer |-> (MatchingAnswers \o FillAnswers)[b.answer]]]]

DoStream ==
  \E code \in env.codes, u \in env.viewers, c \in env.connections :
    StreamHandler(code, u, c) /\ UNCHANGED <<inflight, env>>
DoStreamBreak ==
  \E c \in env.breaking : StreamBreak(c) /\ UNCHANGED <<inflight, env>>
DoStreamClose ==
  \E c \in env.closing : StreamClose(c) /\ UNCHANGED <<inflight, env>>
DoSubmit ==
  \E u \in env.submitters, b \in env.submissions :
    SubmitBegin(b.quizId, u, SubmitBody(b)) /\ UNCHANGED <<inflight, env>>
DoSubmitFinish ==
  \E p \in pendingSubmits : SubmitFinish(p) /\ UNCHANGED <<inflight, env>>
DoStatus ==
  \E c \in env.codes, u \in env.viewers :
    StatusHandler(c, u) /\ UNCHANGED <<inflight, env>>

Next ==
  \/ DoStartLive
  \/ DoJoin
  \/ DoJoinFinish
  \/ DoNext
  \/ DoFinalizerStep
  \/ DoAnswer
  \/ DoEnd
  \/ DoTimerFire

Spec == Init /\ [][Next]_vars

-----------------------------------------------------------------------------
(* Answers in flight: a student answers the question the stream shows, and *)
(* the request reaches the server later.  The body carries the answer only *)
(* (const { answer } = req.body); forIndex notes the question it was       *)
(* written for.                                                            *)

AnswerSend(code, user, answer) ==
  LET s == GetSession(code) IN
  /\ s # NoSession
  /\ session[s].status = "question"
  /\ HasParticipant(s, user)
  /\ \A m \in inflight : m.user # user
  /\ inflight' = inflight \cup
       {[code |-> code, user |-> user, answer |-> answer,
         forIndex |-> session[s].currentQuestionIndex]}
  /\ UNCHANGED <<liveSessions, session, freeSessions, timers, now, pendingJoins, pendingSubmits,
                 finalizers, quizAttempts, studentAnswers, idCounter, resp, emitted,
                 sseClients, streams>>

DoAnswerSend ==
  \E c \in env.codes, u \in env.answerers, a \in env.answers :
    AnswerSend(c, u, a) /\ UNCHANGED env
DoAnswerDeliver ==
  \E m \in inflight :
    /\ AnswerHandler(m.code, m.user, m.answer)
    /\ inflight' = inflight \ {m}
    /\ UNCHANGED env

LateEnv == [DefaultEnv EXCEPT !.answers = {JsString(<<" ", "B">>)}]

InitLate == InitCommon /\ freeSessions = {"s1"} /\ env = LateEnv

NextLate ==
  \/ DoStartLive
  \/ DoJoin
  \/ DoJoinFinish
  \/ DoNext
  \/ DoFinalizerStep
  \/ DoEnd
  \/ DoTimerFire
  \/ DoAnswerSend
  \/ DoAnswerDeliver

SpecLate == InitLate /\ [][NextLate]_vars

-----------------------------------------------------------------------------
(* Properties.                                                             *)

Allocated(s) == session[s].status # "unallocated"

\* C1: the status of a live session only moves forward: once it is ended it
\* is never question or waiting again, and once it is question it is never
\* waiting again.
C1_StatusOnlyMovesForward ==
  [][\A s \in SessionIds :
       Allocated(s) =>
         /\ session[s].status = "ended" => session'[s].status = "ended"
         /\ session[s].status = "question" => session'[s].status # "waiting"]_vars

\* C2: /next by the host on a session that is already ended answers with an
\* AlreadyEnded error and changes nothing: the session is left as it was, no
\* event is broadcast, no save loop is started.
C2_AdvanceOnEndedIsNoOp ==
  [][\A c \in Codes :
       LET s == GetSession(c) IN
       (/\ s # NoSession
        /\ session[s].status = "ended"
        /\ NextHandler(c, session[s].teacherId))
       => /\ resp'.status = 400
          /\ session' = session
          /\ emitted' = <<>>
          /\ finalizers' = finalizers
          /\ idCounter' = idCounter]_vars

\* the ids of the attempts persisted for a student of a quiz
AttemptsOf(quizId, user) ==
  {a \in quizAttempts : a.quiz_id = quizId /\ a.student_id = user}

\* C3: finalization happens once: at most one attempt row is persisted per
\* participant of a session, and at most one answer row per participant and
\* answered question.  (The runs of Spec hold one session, so the rows of its
\* quiz are the rows of the session.)
C3_FinalizationOnce ==
  \A s \in SessionIds :
    Allocated(s) =>
      \A i \in 1..Len(session[s].participants) :
        LET mine == AttemptsOf(session[s].quizId, session[s].participants[i].userId)
        IN /\ Cardinality(mine) <= 1
           /\ \A q \in 1..Len(session[s].questions) :
                Cardinality({r \in studentAnswers :
                               /\ r.attempt_id \in {a.id : a \in mine}
                               /\ r.question_id = session[s].questions[q].id}) <= 1

\* C4: /end triggers the finalizer: once /end has answered, the session is
\* ended and every participant has its attempt row persisted or a save loop
\* of the session is running that will persist it.
C4_EndTriggersFinalizer ==
  (resp.op = "end" /\ resp.status = 200) =>
    \A s \in SessionIds :
      (Allocated(s) /\ session[s].status = "ended") =>
        \A i \in 1..Len(session[s].participants) :
          \/ AttemptsOf(session[s].quizId, session[s].participants[i].userId) # {}
          \/ \E f \in finalizers : f.session = s

\* C5: /end is host-only: sent by any user other than the host it answers
\* with a permissions error and leaves the session, the registry and the
\* timers alone, and broadcasts nothing.
C5_EndIsHostOnly ==
  [][\A c \in Codes, u \in Users :
       LET s == GetSession(c) IN
       (/\ s # NoSession
        /\ u # session[s].teacherId
        /\ EndHandler(c, u))
       => /\ resp'.status = 403
          /\ session' = session
          /\ liveSessions' = liveSessions
          /\ timers' = timers
          /\ emitted' = <<>>]_vars

\* C6: /next is host-only: sent by any user other than the host it answers
\* Forbidden and leaves the session (questionIndex, status, questionStartedAt,
\* participants, scores) as it was, and broadcasts nothing.
C6_AdvanceIsHostOnly ==
  [][\A c \in Codes, u \in Users :
       LET s == GetSession(c) IN
       (/\ s # NoSession
        /\ u # session[s].teacherId
        /\ resp'.op = "next" /\ resp'.user = u
        /\ NextHandler(c, u))
       => /\ resp'.status = 403
          /\ session' = session
          /\ finalizers' = finalizers
          /\ emitted' = <<>>]_vars

\* a non-host was refused while a question was open at a later time than the
\* session's creation
C6_Witness ==
  /\ resp = Response("next", "A1", 403, "Not the session host")
  /\ \E s \in SessionIds :
       /\ Allocated(s)
       /\ session[s].teacherId = "T1"
       /\ session[s].status = "question"
       /\ session[s].currentQuestionIndex = 0
       /\ session[s].questionStartedAt > 0
       /\ session[s].participants # <<>>

\* the answer records of a participant for one question index
RecordsFor(p, index) == {k \in 1..Len(p.answers) : p.answers[k].questionIndex = index}

C7_OneRecordPerQuestion ==
  \A s \in SessionIds :
    Allocated(s) =>
      \A i \in 1..Len(session[s].participants) :
        LET answers == session[s].participants[i].answers IN
        \A k1, k2 \in 1..Len(answers) :
          answers[k1].questionIndex = answers[k2].questionIndex => k1 = k2

C7_SecondAnswerRejected ==
  resp'.op = "answer" =>
  \A c \in Codes, u \in {resp'.user}, a \in env.answers :
    LET s == GetSession(c) IN
    (/\ s # NoSession
     /\ session[s].status = "question"
     /\ \E i \in ParticipantIndex(s, u) :
          RecordsFor(session[s].participants[i], session[s].currentQuestionIndex) # {}
     /\ AnswerHandler(c, u, a))
    => /\ resp' = Response("answer", u, 400, "Already answered")
       /\ session' = session
       /\ emitted' = <<>>

\* C7: a participant never holds more than one answer record per question
\* index, and a second answer by the same student to the same question is
\* answered "Already answered" and leaves the first record and the score as
\* they were.
C7_AtMostOneAnswerPerQuestion ==
  [][/\ C7_OneRecordPerQuestion
     /\ C7_OneRecordPerQuestion'
     /\ C7_SecondAnswerRejected]_vars

\* a second answer was refused for a participant that holds records for both
\* questions
C7_Witness ==
  /\ resp = Response("answer", "S1", 400, "Already answered")
  /\ \E s \in SessionIds :
       /\ Allocated(s)
       /\ session[s].status = "question"
       /\ session[s].currentQuestionIndex = 1
       /\ \E i \in ParticipantIndex(s, "S1") :
            /\ Len(session[s].participants[i].answers) = 2
            /\ session[s].participants[i].score = 2

\* what a step leaves of the participants of a session: those that were
\* there keep their score and their records, a new one starts with none
ScoresAndRecordsKept(s) ==
  LET before == session[s].participants
      after == session'[s].participants
  IN /\ Len(after) >= Len(before)
     /\ \A i \in 1..Len(before) : after[i] = before[i]
     /\ \A i \in (Len(before) + 1)..Len(after) :
          after[i].score = 0 /\ after[i].answers = <<>>

\* C8: an answer is accepted only while the status is question: in waiting
\* and in ended the route answers "No active question", appends no record,
\* changes no score and broadcasts no answer_update; so no step taken while
\* the status is waiting or ended appends a record or changes a score.
C8_AnswerOnlyInQuestion ==
  [][\A s \in SessionIds :
       (Allocated(s) /\ session[s].status \in {"waiting", "ended"}) =>
         /\ ScoresAndRecordsKept(s)
         /\ resp'.op = "answer" =>
            \A c \in Codes, u \in {resp'.user}, a \in env.answers :
              (GetSession(c) = s /\ AnswerHandler(c, u, a)) =>
                /\ resp' = Response("answer", u, 400, "No active question")
                /\ session' = session
                /\ emitted' = <<>>]_vars

\* an answer was refused after the session ended with a question still open
\* and a participant joined
C8_Witness ==
  /\ resp = Response("answer", "S1", 400, "No active question")
  /\ \E s \in SessionIds :
       /\ Allocated(s)
       /\ session[s].status = "ended"
       /\ session[s].currentQuestionIndex = 0
       /\ HasParticipant(s, "S1")

\* C9: a late answer is rejected: an answer written for question i and
\* handled after the session has moved to another question or has ended is
\* answered with an error and is recorded and scored against no question.
C9_LateAnswerRejected ==
  [][\A m \in inflight :
       LET s == GetSession(m.code) IN
       (/\ m \notin inflight'
        /\ s # NoSession
        /\ \/ session[s].status # "question"
           \/ session[s].currentQuestionIndex # m.forIndex)
       => /\ resp'.status = 400
          /\ session' = session]_vars

\* C10: no participant is added to a session whose status is ended.
C10_NoJoinAfterEnded ==
  [][\A s \in SessionIds :
       (Allocated(s) /\ session[s].status = "ended") =>
         Len(session'[s].participants) <= Len(session[s].participants)]_vars

-----------------------------------------------------------------------------
(* Two join codes and two session objects: sessions side by side, and a    *)
(* code used again after its session was deleted.                          *)

CodesEnv ==
  [codes |-> Codes,
   quizzes |-> {"quizA"},
   joiners |-> {"S1"},
   answerers |-> {},
   answers |-> {},
   operators |-> {"T1"},
   viewers |-> {}]

InitCodes == InitCommon /\ freeSessions = SessionIds /\ env = CodesEnv

NextCodes ==
  \/ DoStartLive
  \/ DoJoin
  \/ DoJoinFinish
  \/ DoEnd
  \/ DoTimerFire

SpecCodes == InitCodes /\ [][NextCodes]_vars

-----------------------------------------------------------------------------
(* Leaderboards: a session on quizA with its last question open and three  *)
(* participants, in any join order, each having answered both questions    *)
(* rightly or wrongly; /status, /end and /next then rank them.             *)

\* /join takes any authenticated user
BoardUsers == {"S1", "S2", "A1"}

BoardRecord(index, correct) ==
  [questionIndex |-> index,
   answer |-> IF correct THEN Quizzes.quizA.questions[index + 1].correct_answer
                         ELSE <<"A">>,
   correct |-> correct,
   time |-> 0]

BoardParticipant(user, right) ==
  [userId |-> user,
   name |-> UserNames[user],
   score |-> (IF right[1] THEN Quizzes.quizA.questions[1].marks ELSE 0)
             + (IF right[2] THEN Quizzes.quizA.questions[2].marks ELSE 0),
   answers |-> <<BoardRecord(0, right[1]), BoardRecord(1, right[2])>>]

BoardEnv ==
  [codes |-> {"100000"},
   quizzes |-> {},
   joiners |-> {},
   answerers |-> {},
   answers |-> {},
   operators |-> {"T1"},
   viewers |-> {"S1"}]

InitBoard ==
  /\ liveSessions = [c \in Codes |-> IF c = "100000" THEN "s1" ELSE NoSession]
  /\ \E order \in [1..Cardinality(BoardUsers) -> BoardUsers],
        right \in [BoardUsers -> [1..2 -> BOOLEAN]] :
       /\ \A i, k \in DOMAIN order : order[i] = order[k] => i = k
       /\ session =
            [s \in SessionIds |->
               IF s = "s1"
               THEN [NewSession("quizA", "T1") EXCEPT
                       !.status = "question",
                       !.currentQuestionIndex = 1,
                       !.participants =
                          [i \in DOMAIN order |->
                             BoardParticipant(order[i], right[order[i]])]]
               ELSE [status |-> "unallocated"]]
  /\ freeSessions = {"s2"}
  /\ timers = [c \in Codes |-> 0]
  /\ now = 0
  /\ pendingJoins = {}
  /\ pendingSubmits = {}
  /\ finalizers = {}
  /\ quizAttempts = {}
  /\ studentAnswers = {}
  /\ idCounter = 0
  /\ inflight = {}
  /\ env = BoardEnv
  /\ resp = NoResponse
  /\ emitted = <<>>
  /\ sseClients = [s \in SessionIds |-> <<>>]
  /\ streams = [c \in ConnIds |-> IdleStream]

\* a /next past the last question broadcasts its leaderboard and waits for
\* its first insert; the runs stop short of the database answering
NextBoard ==
  \/ DoStatus
  \/ DoEnd
  \/ DoNext
  \/ DoTimerFire

SpecBoard == InitBoard /\ [][NextBoard]_vars

-----------------------------------------------------------------------------
(* A database that can fail: two students join, the host advances to the   *)
(* end, and an insert of the save loop may reject.                         *)

FailEnv ==
  [codes |-> {"100000"},
   quizzes |-> {"quizA"},
   joiners |-> {"S1", "S2"},
   answerers |-> {},
   answers |-> {},
   operators |-> {"T1"},
   viewers |-> {}]

InitFail == InitCommon /\ freeSessions = {"s1"} /\ env = FailEnv

NextFail ==
  \/ DoStartLive
  \/ DoJoin
  \/ DoJoinFinish
  \/ DoNext
  \/ DoFinalizerStep
  \/ DoFinalizerFail

SpecFail == InitFail /\ [][NextFail]_vars

-----------------------------------------------------------------------------
(* A viewer: a connection subscribes to the session of the one-question    *)
(* quiz F, and may break or close at any time, while S1 joins and answers, *)
(* and the host advances and ends.                                         *)

StreamEnv ==
  [codes |-> {"100000"},
   quizzes |-> {"quizF"},
   joiners |-> {"S1"},
   answerers |-> {"S1"},
   answers |-> {JsString(<<"B">>)},
   operators |-> {"T1"},
   viewers |-> {"S2"},
   connections |-> {"r1"},
   breaking |-> {"r1"},
   closing |-> {"r1"}]

InitStream == InitCommon /\ freeSessions = {"s1"} /\ env = StreamEnv

NextStream ==
  \/ DoStartLive
  \/ DoStream
  \/ DoStreamBreak
  \/ DoStreamClose
  \/ DoJoin
  \/ DoJoinFinish
  \/ DoNext
  \/ DoAnswer
  \/ DoEnd

SpecStream == InitStream /\ [][NextStream]_vars

-----------------------------------------------------------------------------
(* Two viewers: r1 and r2 subscribe to the session of quiz F, the socket   *)
(* of r1 may break and r2 may close, while the host advances and ends.     *)

PublishEnv ==
  [codes |-> {"100000"},
   quizzes |-> {"quizF"},
   joiners |-> {},
   answerers |-> {},
   answers |-> {},
   operators |-> {"T1"},
   viewers |-> {"S2"},
   connections |-> ConnIds,
   breaking |-> {"r1"},
   closing |-> {"r2"}]

InitPublish == InitCommon /\ freeSessions = {"s1"} /\ env = PublishEnv

NextPublish ==
  \/ DoStartLive
  \/ DoStream
  \/ DoStreamBreak
  \/ DoStreamClose
  \/ DoNext
  \/ DoEnd

SpecPublish == InitPublish /\ [][NextPublish]_vars

-----------------------------------------------------------------------------
(* A viewer and a database that can fail: r1 subscribes, S1 joins, the     *)
(* host advances to the end, and an insert of the save loop may reject.    *)

FinalEnv ==
  [codes |-> {"100000"},
   quizzes |-> {"quizF"},
   joiners |-> {"S1"},
   answerers |-> {},
   answers |-> {},
   operators |-> {"T1"},
   viewers |-> {"S2"},
   connections |-> {"r1"}]

InitFinal == InitCommon /\ freeSessions = {"s1"} /\ env = FinalEnv

NextFinal ==
  \/ DoStartLive
  \/ DoStream
  \/ DoJoin
  \/ DoJoinFinish
  \/ DoNext
  \/ DoFinalizerStep
  \/ DoFinalizerFail

SpecFinal == InitFinal /\ [][NextFinal]_vars

-----------------------------------------------------------------------------
(* Two students: S1 and S2 join the session of the one-question quiz F and *)
(* answer it, the host advances.                                           *)

AnswersEnv ==
  [codes |-> {"100000"},
   quizzes |-> {"quizF"},
   joiners |-> {"S1", "S2"},
   answerers |-> {"S1", "S2"},
   answers |-> {JsString(<<"B">>)},
   operators |-> {"T1"},
   viewers |-> {}]

InitAnswers == InitCommon /\ freeSessions = {"s1"} /\ env = AnswersEnv

NextAnswers ==
  \/ DoStartLive
  \/ DoJoin
  \/ DoJoinFinish
  \/ DoNext
  \/ DoAnswer

SpecAnswers == InitAnswers /\ [][NextAnswers]_vars

-----------------------------------------------------------------------------
(* One run of the two-question quiz E: S1 joins and answers "b" and        *)
(* "False", the host advances.                                             *)

RunEnv ==
  [codes |-> {"100000"},
   quizzes |-> {"quizE"},
   joiners |-> {"S1"},
   answerers |-> {"S1"},
   answers |-> {JsString(<<"b">>), JsString(<<"F", "a", "l", "s", "e">>)},
   operators |-> {"T1"},
   viewers |-> {}]

InitRun == InitCommon /\ freeSessions = {"s1"} /\ env = RunEnv

NextRun ==
  \/ DoStartLive
  \/ DoJoin
  \/ DoJoinFinish
  \/ DoNext
  \/ DoFinalizerStep
  \/ DoAnswer

SpecRun == InitRun /\ [][NextRun]_vars

-----------------------------------------------------------------------------
(* Live sessions on questions of the other types.                          *)

TypesEnv ==
  [codes |-> {"100000"},
   quizzes |-> {"quizE", "quizF"},
   joiners |-> {"S1"},
   answerers |-> {"S1"},
   answers |-> {JsString(<<"B">>), JsString(<<"B", "e", "e", " ">>)},
   operators |-> {"T1"},
   viewers |-> {}]

InitTypes == InitCommon /\ freeSessions = {"s1"} /\ env = TypesEnv

NextTypes ==
  \/ DoStartLive
  \/ DoJoin
  \/ DoJoinFinish
  \/ DoNext
  \/ DoFinalizerStep
  \/ DoAnswer

SpecTypes == InitTypes /\ [][NextTypes]_vars

-----------------------------------------------------------------------------
(* Asynchronous submission: S1 has an attempt in progress on quiz M and    *)
(* one on quiz F, and submits answers to them.                             *)

SubmitEnv ==
  [codes |-> {},
   quizzes |-> {},
   joiners |-> {},
   answerers |-> {},
   answers |-> {},
   operators |-> {},
   viewers |-> {},
   submitters |-> {"S1", "T1"},
   submissions |-> Submissions]

InitSubmit ==
  /\ liveSessions = [c \in Codes |-> NoSession]
  /\ session = [s \in SessionIds |-> [status |-> "unallocated"]]
  /\ freeSessions = SessionIds
  /\ timers = [c \in Codes |-> 0]
  /\ now = 0
  /\ pendingJoins = {}
  /\ pendingSubmits = {}
  /\ finalizers = {}
  /\ quizAttempts = {InProgressAttempt(1, "quizM", "S1"),
                     InProgressAttempt(2, "quizF", "S1")}
  /\ studentAnswers = {}
  /\ idCounter = 2
  /\ inflight = {}
  /\ env = SubmitEnv
  /\ resp = NoResponse
  /\ emitted = <<>>
  /\ sseClients = [s \in SessionIds |-> <<>>]
  /\ streams = [c \in ConnIds |-> IdleStream]

NextSubmit ==
  \/ DoSubmit
  \/ DoSubmitFinish

SpecSubmit == InitSubmit /\ [][NextSubmit]_vars

\* no user is a participant of a session twice
C11_NoDuplicateParticipant ==
  \A s \in SessionIds :
    Allocated(s) =>
      \A i, k \in 1..Len(session[s].participants) :
        session[s].participants[i].userId = session[s].participants[k].userId
          => i = k

\* C11: join is idempotent per student: a /join by a student that already is
\* a participant adds no second participant, leaves the scores and the answer
\* records as they were, broadcasts no participant_joined, and answers 200
\* with the summary of the session.
C11_JoinIsIdempotent ==
  [][/\ C11_NoDuplicateParticipant'
     /\ resp'.op = "join" =>
          \A j \in pendingJoins :
            (ParticipantIndex(j.session, j.user) # {} /\ JoinFinish(j)) =>
              /\ session' = session
              /\ emitted' = <<>>
              /\ resp' = Reply("join", j.user,
                               JoinSummary(j.session,
                                           Len(session[j.session].participants)))]_vars

\* S1 joined again after it had scored, and got the summary of the session
C11_Witness ==
  /\ resp = Reply("join", "S1",
                  [status |-> "question", participant_count |-> 1,
                   question_count |-> 2])
  /\ emitted = <<>>
  /\ \E s \in SessionIds :
       /\ Allocated(s)
       /\ Len(session[s].participants) = 1
       /\ session[s].participants[1].userId = "S1"
       /\ session[s].participants[1].score > 0
       /\ session[s].participants[1].answers # <<>>

\* C12: /next is strictly monotonic: a new session starts at index -1, every
\* /next that passes the host check adds exactly one to currentQuestionIndex,
\* no other step changes it (so after N such calls it is N - 1), and the
\* session is ended whenever the index has reached the number of questions.
C12_AdvanceIsMonotonic ==
  [][\A s \in SessionIds :
       /\ (~Allocated(s) /\ Allocated(s)') => session'[s].currentQuestionIndex = -1
       /\ Allocated(s) =>
            LET before == session[s].currentQuestionIndex
                after == session'[s].currentQuestionIndex
                advanced == /\ session'[s] # session[s]
                            /\ \E c \in Codes :
                                 /\ GetSession(c) = s
                                 /\ NextHandler(c, session[s].teacherId)
            IN /\ advanced => after = before + 1
               /\ after # before => advanced
               /\ after >= Len(session[s].questions) => session'[s].status = "ended"]_vars

\* the host advanced past the last question of a session that nobody ended
\* by /end: three advances on two questions
C12_Witness ==
  \E c \in Codes :
    LET s == GetSession(c) IN
    /\ s # NoSession
    /\ timers[c] = 0
    /\ session[s].currentQuestionIndex = Len(session[s].questions)
    /\ session[s].status = "ended"
    /\ session[s].participants # <<>>

\* C13: every session that became ended is removed from the registry after
\* the grace period.  Only a pending delete timer removes a session, so an
\* ended session still in the registry has a timer pending for its code.
C13_EndedSessionIsRemoved ==
  \A c \in Codes :
    LET s == GetSession(c) IN
    (s # NoSession /\ session[s].status = "ended") => timers[c] > 0

\* join codes are unique among the sessions of the registry
C14_CodesAreUnique ==
  \A c1, c2 \in Codes :
    (liveSessions[c1] # NoSession /\ liveSessions[c1] = liveSessions[c2]) => c1 = c2

\* C14: start-live stores the new session under a join code that was not a
\* key of the registry: every other key keeps its session, every existing
\* session object is left as it was, the new session is waiting with index
\* -1 and no participants, and no session is in the registry under two codes.
C14_CreatePicksFreeCode ==
  [][/\ C14_CodesAreUnique'
     /\ (resp'.op = "start-live" /\ resp'.status = 200) =>
          \A q \in env.quizzes, u \in Hosts :
            StartLive(q, u) =>
              \E c \in Codes :
                LET s == liveSessions'[c] IN
                /\ liveSessions[c] = NoSession
                /\ s # NoSession
                /\ \A d \in Codes \ {c} : liveSessions'[d] = liveSessions[d]
                /\ ~Allocated(s)
                /\ \A o \in SessionIds \ {s} : session'[o] = session[o]
                /\ session'[s].status = "waiting"
                /\ session'[s].currentQuestionIndex = -1
                /\ session'[s].participants = <<>>]_vars

\* a second session was created while the first, ended and with a
\* participant, was in the registry
C14_Witness ==
  /\ resp.op = "start-live" /\ resp.status = 200
  /\ \A c \in Codes : liveSessions[c] # NoSession
  /\ \E s \in SessionIds :
       /\ Allocated(s)
       /\ session[s].status = "ended"
       /\ session[s].participants # <<>>
  /\ \E s \in SessionIds : Allocated(s) /\ session[s].status = "waiting"

\* the place of the participant at position i of ps in the ranking: after
\* every higher score and after every equal score that joined earlier
RankOf(ps, i) ==
  1 + Cardinality({j \in 1..Len(ps) : ps[j].score > ps[i].score})
    + Cardinality({j \in 1..(i - 1) : ps[j].score = ps[i].score})

IsRanking(leaderboard, ps) ==
  /\ Len(leaderboard) = Len(ps)
  /\ \A i \in 1..Len(ps) :
       LET e == leaderboard[RankOf(ps, i)] IN
       /\ e.rank = RankOf(ps, i)
       /\ e.name = ps[i].name
       /\ e.score = ps[i].score

\* C16: the leaderboard that /next past the last question and /end broadcast
\* and that /end and /status answer is the participants by score descending,
\* equal scores in join order, each entry with its place as its rank.
C16_LeaderboardIsStableRanking ==
  [][\A c \in Codes :
       LET s == GetSession(c) IN
       s # NoSession =>
         /\ \A k \in 1..Len(emitted') :
              (emitted'[k].event = "quiz_ended" /\ emitted'[k].session = s) =>
                IsRanking(emitted'[k].data.leaderboard, session[s].participants)
         /\ (resp'.op = "end" /\ EndHandler(c, resp'.user)) =>
              IsRanking(resp'.body.leaderboard, session[s].participants)
         /\ (resp'.op = "status" /\ StatusHandler(c, resp'.user)) =>
              IsRanking(resp'.body.leaderboard, session[s].participants)]_vars

\* /status ranked three participants that joined with scores 1, 3, 3: the
\* two with 3 first, in join order, then the one with 1
C16_Witness ==
  /\ resp.op = "status" /\ resp.status = 200
  /\ \E s \in SessionIds :
       /\ Allocated(s)
       /\ Len(session[s].participants) = 3
       /\ session[s].participants[1].score = 1
       /\ session[s].participants[2].score = 3
       /\ session[s].participants[3].score = 3
       /\ resp.body.leaderboard[1].user_id = session[s].participants[2].userId
       /\ resp.body.leaderboard[2].user_id = session[s].participants[3].userId
       /\ resp.body.leaderboard[3].user_id = session[s].participants[1].userId

\* C17: the save loop is a best-effort batch: when an insert for one
\* participant fails, the loop goes on with the participants after it, so
\* right after the failure the handler is still in its save loop whenever a
\* participant was left to save.
C17_FinalizationIsBestEffort ==
  [][\A f \in finalizers :
       (FinalizerFail(f) /\ f.pos < Len(session[f.session].participants)) =>
         \E g \in finalizers' :
           /\ g.session = f.session
           /\ g.user = f.user
           /\ g.leaderboard = f.leaderboard
           /\ g.pos >= f.pos]_vars

\* the question q with other canonical answer data: another correct_answer
\* and, for fill_in_blank, another list of acceptable answers
WithOtherAnswer(q) ==
  [q EXCEPT !.correct_answer = <<"A">>,
            !.options = IF q.question_type = "fill_in_blank"
                        THEN [acceptable |-> << <<"A">> >>]
                        ELSE @]

\* C15: the question event does not depend on the canonical answer: the
\* event a session broadcasts for a question is the event it would broadcast
\* if only the answer data of that question were different.
C15_QuestionEventHidesAnswer ==
  [][\A k \in 1..Len(emitted') :
       emitted'[k].event = "question" =>
         LET s == emitted'[k].session
             index == session'[s].currentQuestionIndex
             q == session[s].questions[index + 1]
         IN emitted'[k].data =
              QuestionEvent(WithOtherAnswer(q), index, Len(session[s].questions),
                            session[s].questionTimeLimit)]_vars

\* the run of the example: three advances took effect, S1 is the one
\* participant and answered "b" to the first question and "False" to the
\* second, and the last /next has answered
C19_Scenario ==
  /\ resp.op = "next" /\ resp.status = 200 /\ resp.body.status = "ended"
  /\ finalizers = {}
  /\ \E s \in SessionIds :
       /\ Allocated(s)
       /\ session[s].quizId = "quizE"
       /\ session[s].currentQuestionIndex = 2
       /\ Len(session[s].participants) = 1
       /\ session[s].participants[1].userId = "S1"
       /\ Len(session[s].participants[1].answers) = 2
       /\ session[s].participants[1].answers[1].questionIndex = 0
       /\ session[s].participants[1].answers[1].answer = <<"b">>
       /\ session[s].participants[1].answers[2].questionIndex = 1
       /\ session[s].participants[1].answers[2].answer = <<"F", "a", "l", "s", "e">>

\* C19: at the end of that run "b" was marked correct and "False" incorrect,
\* S1 has score 1, the session is ended, the leaderboard answered is S1 with
\* score 1 at rank 1, and quiz_attempts holds exactly one row for S1, with
\* score 1, total_marks 2 and percentage 50.00.
C19_EndToEndRun ==
  C19_Scenario =>
    \A s \in SessionIds :
      Allocated(s) =>
        /\ session[s].status = "ended"
        /\ session[s].participants[1].answers[1].correct
        /\ ~session[s].participants[1].answers[2].correct
        /\ session[s].participants[1].score = 1
        /\ resp.body.leaderboard = <<[rank |-> 1, name |-> UserNames["S1"], score |-> 1]>>
        /\ Cardinality(AttemptsOf("quizE", "S1")) = 1
        /\ \A a \in AttemptsOf("quizE", "S1") :
             /\ a.score = 1
             /\ a.total_marks = 2
             /\ a.percentage = 5000
             /\ a.status = "evaluated"

\* C18: the live answer route gives every answer the verdict the scorer of
\* the asynchronous submit route gives it: whenever /answer accepts a string
\* answer, the correct flag of its reply is the isCorrect of SubmitScore for
\* the same question and answer.
C18_LiveScoresLikeSubmit ==
  [][(resp'.op = "answer" /\ resp'.status = 200) =>
       \A c \in Codes, a \in env.answers :
         LET s == GetSession(c) IN
         (s # NoSession /\ a.t = "string" /\ AnswerHandler(c, resp'.user, a)) =>
           resp'.body.correct =
             SubmitScore(session[s].questions[session[s].currentQuestionIndex + 1],
                         a).isCorrect]_vars

\* trimmed, lower-cased comparison of two (left, right) pairs
SamePair(a, b) ==
  /\ ToLowerCase(Trim(a[1])) = ToLowerCase(Trim(b[1]))
  /\ ToLowerCase(Trim(a[2])) = ToLowerCase(Trim(b[2]))

\* the canonical pairs the submission covers
MatchedPairs(sub, canonical) ==
  {k \in 1..Len(canonical) : \E j \in 1..Len(sub) : SamePair(sub[j], canonical[k])}

\* row is the student_answers row the claim describes for a submission that
\* covers matched of the canonical pairs of q: marks_awarded is the whole
\* number nearest to marks * matched / canonical (halves up), within
\* 0..marks, and is_correct says that every canonical pair is covered
IsMatchingRow(row, q, matched, canonical) ==
  /\ 2 * canonical * row.marks_awarded <= 2 * q.marks * matched + canonical
  /\ 2 * q.marks * matched + canonical < 2 * canonical * (row.marks_awarded + 1)
  /\ row.marks_awarded \in 0..q.marks
  /\ row.is_correct = (matched = canonical)

\* C20: the row /submit writes for an answer to a matching question has
\* marks_awarded = round(marks * matchedPairs / canonicalPairs) and is_correct
\* iff all canonical pairs are covered, the pairs compared trimmed and
\* case-insensitively on both sides; a text that is no list of pairs covers
\* none.
C20_MatchingScorer ==
  [][(resp'.op = "submit" /\ resp'.status = 200) =>
       \A p \in pendingSubmits \ pendingSubmits' :
         SubmitFinish(p) =>
           \A i \in 1..Len(p.body.answers) :
             LET ans == p.body.answers[i]
                 qs == QuestionsWithId(p.quizId, ans.question_id)
                 canonical == CanonicalPairs(ans.question_id)
                 rows == {r \in studentAnswers' :
                            /\ r.attempt_id = p.body.attempt_id
                            /\ r.question_id = ans.question_id
                            /\ r.answer_text = ans.answer.v}
             IN (qs # <<>> /\ Head(qs).question_type = "matching") =>
                  /\ rows # {}
                  /\ \A r \in rows :
                       /\ \A sub \in MatchingSubmissions :
                            ans.answer.v = PairsJson(sub) =>
                              IsMatchingRow(r, Head(qs),
                                            Cardinality(MatchedPairs(sub, canonical)),
                                            Len(canonical))
                       /\ (\A sub \in MatchingSubmissions :
                             ans.answer.v # PairsJson(sub)) =>
                              IsMatchingRow(r, Head(qs), 0, Len(canonical))]_vars

\* the example: two of the three pairs of m1 (marks 3) were matched, the row
\* has 2 marks and is not correct, and the same text, which matches one of
\* the two pairs of m2 (marks 3), earned 2 marks there
C20_Witness ==
  /\ resp.op = "submit" /\ resp.status = 200
  /\ \E r \in studentAnswers :
       /\ r.question_id = "m1"
       /\ r.answer_text = PairsJson(<< << <<"a", " ">>, <<"1">> >>,
                                       << <<"C">>, <<" ", "3">> >> >>)
       /\ r.marks_awarded = 2
       /\ ~r.is_correct
  /\ \E r \in studentAnswers :
       /\ r.question_id = "m2"
       /\ r.answer_text = PairsJson(<< << <<"a", " ">>, <<"1">> >>,
                                       << <<"C">>, <<" ", "3">> >> >>)
       /\ r.marks_awarded = 2
       /\ ~r.is_correct

\* C21: the scorer takes a malformed answer as incorrect and never raises:
\* every /submit that reaches its scoring loop answers 200, and for each
\* answer that is not a string and whose question exists it has written a
\* row with is_correct false and marks_awarded 0.
C21_MalformedAnswerScoresZero ==
  [][\A p \in pendingSubmits \ pendingSubmits' :
       /\ resp'.op = "submit" /\ resp'.status = 200
       /\ \A i \in 1..Len(p.body.answers) :
            LET ans == p.body.answers[i] IN
            (ans.answer.t # "string" /\ QuestionsWithId(p.quizId, ans.question_id) # <<>>) =>
              \E r \in studentAnswers' :
                /\ r.attempt_id = p.body.attempt_id
                /\ r.question_id = ans.question_id
                /\ ~r.is_correct
                /\ r.marks_awarded = 0]_vars

\* C22: /end on a session that has already ended changes nothing: the
\* session objects stay as they are, no event is broadcast and no registry
\* removal is scheduled.
C22_EndIsIdempotent ==
  [][(resp'.op = "end" /\ resp'.status = 200) =>
       \A c \in Codes :
         LET s == GetSession(c) IN
         (s # NoSession /\ session[s].status = "ended" /\ EndHandler(c, resp'.user)) =>
           /\ session' = session
           /\ emitted' = <<>>
           /\ timers' = timers]_vars

\* the messages broadcastSSE wrote for the events of session s, in order
MessagesFor(s, events) ==
  LET mine == SelectSeq(events, LAMBDA e : e.session = s)
  IN [k \in 1..Len(mine) |-> [event |-> mine[k].event, data |-> mine[k].data]]

\* C24: the channel preserves the emission order: in every step, a connection
\* that is subscribed and working before and after the step has received
\* exactly the events the step emitted for its session, once each, in order,
\* after everything it had received before.
C24_ChannelPreservesOrder ==
  [][\A c \in ConnIds :
       (streams[c].status = "open" /\ streams'[c].status = "open") =>
         streams'[c].received =
           streams[c].received \o MessagesFor(streams[c].session, emitted')]_vars

\* a viewer that subscribed to the waiting session has seen the whole run
C24_Witness ==
  \E c \in ConnIds :
    /\ streams[c].status = "open"
    /\ Len(streams[c].received) = 5
    /\ [k \in 1..5 |-> streams[c].received[k].event] =
         <<"connected", "participant_joined", "question", "answer_update", "quiz_ended">>

\* c is one of the clients
IsClient(clients, c) == \E k \in 1..Len(clients) : clients[k] = c

\* C25: a broadcast writes the event to every subscribed connection whose
\* write succeeds and keeps it subscribed; a connection whose write fails is
\* dropped and nothing is written to it, then or later; a connection that
\* closes is removed, and no other connection is.
C25_PublishDropsOnlyFailedWriters ==
  [][/\ \A k \in 1..Len(emitted') :
          LET s == emitted'[k].session
              msg == [event |-> emitted'[k].event, data |-> emitted'[k].data]
          IN \A c \in ConnIds :
               IsClient(sseClients[s], c) =>
                 IF streams[c].status = "broken"
                 THEN /\ ~IsClient(sseClients'[s], c)
                      /\ streams'[c].received = streams[c].received
                 ELSE /\ IsClient(sseClients'[s], c)
                      /\ streams'[c].received = Append(streams[c].received, msg)
     /\ \A c \in ConnIds :
          (streams[c].status # "idle" /\ \A s \in SessionIds : ~IsClient(sseClients[s], c)) =>
            /\ streams'[c].received = streams[c].received
            /\ \A s \in SessionIds : ~IsClient(sseClients'[s], c)
     /\ \A c \in ConnIds :
          (streams[c].status # "closed" /\ streams'[c].status = "closed") =>
            \A s \in SessionIds :
              sseClients'[s] = SelectSeq(sseClients[s], LAMBDA x : x # c)]_vars

\* the write to r1 failed on the question event: r1 was dropped with what it
\* had, and r2, subscribed after it, got the event and stays subscribed
C25_Witness ==
  /\ streams["r1"].status = "broken"
  /\ Len(streams["r1"].received) = 1
  /\ streams["r2"].status = "open"
  /\ sseClients["s1"] = <<"r2">>
  /\ [k \in 1..Len(streams["r2"].received) |-> streams["r2"].received[k].event] =
       <<"connected", "question">>

\* C23: when /next ends the session, every subscribed viewer has the final
\* leaderboard before anything is persisted, and nothing that happens later,
\* a rejected insert included, takes away what a viewer has received.
C23_LeaderboardBeforePersistence ==
  [][/\ \A c \in ConnIds :
          /\ Len(streams[c].received) <= Len(streams'[c].received)
          /\ SubSeq(streams'[c].received, 1, Len(streams[c].received)) = streams[c].received
     /\ \A s \in SessionIds :
          (Allocated(s) /\ session[s].status # "ended" /\ session'[s].status = "ended") =>
            /\ quizAttempts' = quizAttempts
            /\ studentAnswers' = studentAnswers
            /\ \A c \in ConnIds :
                 (streams[c].status = "open" /\ streams[c].session = s) =>
                   streams'[c].received[Len(streams'[c].received)] =
                     [event |-> "quiz_ended", data |-> [leaderboard |-> Leaderboard(s)]]]_vars

\* the insert of S1's attempt was rejected, and the viewer holds the final
\* leaderboard with S1 on it
C23_Witness ==
  /\ resp = Response("next", "T1", 500, "Internal Server Error")
  /\ finalizers = {}
  /\ quizAttempts = {}
  /\ streams["r1"].status = "open"
  /\ streams["r1"].received[Len(streams["r1"].received)] =
       [event |-> "quiz_ended",
        data |-> [leaderboard |-> <<[rank |-> 1, name |-> UserNames["S1"], score |-> 0]>>]]

\* C26: an accepted answer broadcasts exactly one answer_update, taken after
\* the record was appended: answered is the number of participants that hold
\* a record for the current question, the submitter among them, total is the
\* number of participants, 1 <= answered <= total, and the payload has these
\* two counts and nothing else.
C26_AnswerUpdateAfterAppend ==
  [][(resp'.op = "answer" /\ resp'.status = 200) =>
       \A c \in Codes :
         LET s == GetSession(c) IN
         (s # NoSession /\ \E a \in env.answers : AnswerHandler(c, resp'.user, a)) =>
           LET ps == session'[s].participants
               index == session'[s].currentQuestionIndex
               holders == {i \in 1..Len(ps) : RecordsFor(ps[i], index) # {}}
           IN /\ Len(emitted') = 1
              /\ emitted'[1].session = s
              /\ emitted'[1].event = "answer_update"
              /\ DOMAIN emitted'[1].data = {"answered", "total"}
              /\ emitted'[1].data.answered = Cardinality(holders)
              /\ emitted'[1].data.total = Len(ps)
              /\ \E i \in holders : ps[i].userId = resp'.user
              /\ 1 <= emitted'[1].data.answered
              /\ emitted'[1].data.answered <= emitted'[1].data.total]_vars

\* S2 answered after S1: the update says 2 of 2
C26_Witness ==
  /\ resp.op = "answer" /\ resp.status = 200 /\ resp.user = "S2"
  /\ Len(emitted) = 1
  /\ emitted[1].event = "answer_update"
  /\ emitted[1].data = [answered |-> 2, total |-> 2]

\* C27: the registry only loses sessions that have ended: no step removes a
\* session whose status is waiting or question.
C27_OnlyEndedSessionsRemoved ==
  [][\A c \in Codes :
       (liveSessions[c] # NoSession /\ liveSessions'[c] # liveSessions[c]) =>
         session[liveSessions[c]].status = "ended"]_vars

\* the marks of the first n questions for which p holds a correct record
RECURSIVE MarksEarned(_, _, _)
MarksEarned(p, questions, n) ==
  IF n = 0 THEN 0
  ELSE MarksEarned(p, questions, n - 1) +
       (IF \E k \in 1..Len(p.answers) :
             p.answers[k].questionIndex = n - 1 /\ p.answers[k].correct
        THEN questions[n].marks ELSE 0)

\* C28: after every step the score of each participant is the sum of the
\* marks of the questions for which it holds a record marked correct, lies
\* between 0 and the sum of all marks, and is not below what it was.
C28_ScoreIsSumOfCorrect ==
  [][\A s \in SessionIds :
       (session'[s].status # "unallocated") =>
         \A i \in 1..Len(session'[s].participants) :
           LET p == session'[s].participants[i] IN
           /\ p.score = MarksEarned(p, session'[s].questions, Len(session'[s].questions))
           /\ 0 <= p.score
           /\ p.score <= SumMarks(session'[s].questions)
           /\ (Allocated(s) /\ i <= Len(session[s].participants)) =>
                session[s].participants[i].score <= p.score]_vars

\* S1 holds a correct record for the first question of quiz E and an
\* incorrect one for the second, each worth 1 mark
C28_Witness ==
  \E s \in SessionIds :
    /\ Allocated(s)
    /\ session[s].quizId = "quizE"
    /\ \E i \in 1..Len(session[s].participants) :
         LET p == session[s].participants[i] IN
         /\ Len(p.answers) = 2
         /\ p.answers[1].correct
         /\ ~p.answers[2].correct
         /\ p.score = 1

\* C29: in every reachable state a session in status question has a current
\* question (0 <= currentQuestionIndex < number of questions), and a session
\* in status waiting has currentQuestionIndex -1.
C29_CurrentQuestionExists ==
  \A s \in SessionIds :
    Allocated(s) =>
      /\ session[s].status = "question" =>
           /\ 0 <= session[s].currentQuestionIndex
           /\ session[s].currentQuestionIndex < Len(session[s].questions)
      /\ session[s].status = "waiting" => session[s].currentQuestionIndex = -1

\* the host advanced to the last question of the two-question quiz, and
\* S1 has answered it
C29_Witness ==
  \E s \in SessionIds :
    /\ Allocated(s)
    /\ session[s].status = "question"
    /\ session[s].currentQuestionIndex = Len(session[s].questions) - 1
    /\ Len(session[s].questions) = 2
    /\ \E i \in 1..Len(session[s].participants) :
         \E k \in 1..Len(session[s].participants[i].answers) :
           session[s].participants[i].answers[k].questionIndex = 1

\* C30: an attempt is evaluated at most once: a /submit that stores its
\* answers and answers 200 finds the attempt in progress when it does so; a
\* request for an attempt that another request has evaluated writes nothing.
C30_AttemptEvaluatedOnce ==
  [][\A p \in pendingSubmits \ pendingSubmits' :
       (\E a \in quizAttempts : a.id = p.body.attempt_id /\ a.status # "in_progress") =>
         /\ quizAttempts' = quizAttempts
         /\ studentAnswers' = studentAnswers
         /\ ~(resp'.op = "submit" /\ resp'.status = 200 /\ resp' # resp)]_vars

====
